---- MODULE Spec2Model ----
(***************************************************************************)
(* A model of lib/llm_client.py: the OAuth token cache (get_oauth_token),  *)
(* the client acquisition (get_azure_client), the Context Formatter        *)
(* (format_db_data_for_llm), the Response Formatter                        *)
(* (enhance_response_formatting), the Simulated Responder                  *)
(* (get_simulated_response) and the Response Orchestrator                  *)
(* (get_llm_response).                                                     *)
(*                                                                         *)
(* A Python str is a sequence of one-character strings, so that splitting, *)
(* stripping, substring tests and the regular expressions of the source    *)
(* are computed character by character.  None is the record NoneValue and  *)
(* a str value is the record Str(text).                                    *)
(***************************************************************************)
EXTENDS Integers, Sequences, FiniteSets, TLC

(***************************************************************************)
(* Characters and the str methods the source uses.                         *)
(***************************************************************************)
\* the character U+0060 (the grave accent of a Markdown fence), which a TLA+ string
\* literal cannot hold
Backtick == "U+0060"

UpperCase == <<"A","B","C","D","E","F","G","H","I","J","K","L","M","N","O","P","Q","R","S","T",
               "U","V","W","X","Y","Z">>

LowerCase == <<"a","b","c","d","e","f","g","h","i","j","k","l","m","n","o","p","q","r","s","t",
               "u","v","w","x","y","z">>

UpperChars == {UpperCase[i] : i \in 1..26}

DigitChars == {"0", "1", "2", "3", "4", "5", "6", "7", "8", "9"}

\* \w of the re module, on the characters of the model
WordChars == UpperChars \cup {LowerCase[i] : i \in 1..26} \cup DigitChars \cup {"_"}

\* [\w\.] of the import signature
WordOrDotChars == WordChars \cup {"."}

\* \s of the re module and the characters str.strip() removes
SpaceChars == {" ", "\t", "\n", "\r", "\f"}

ToLower == [c \in UpperChars |-> LowerCase[CHOOSE i \in 1..26 : UpperCase[i] = c]]

lower_char(c) == IF c \in UpperChars THEN ToLower[c] ELSE c

\* str.lower()
lower(s) == [i \in 1..Len(s) |-> lower_char(s[i])]

IsSpace(c) == c \in SpaceChars

IsWord(c) == c \in WordChars

IsWordOrDot(c) == c \in WordOrDotChars

IsDigit(c) == c \in DigitChars

\* sub occurs in s at index i
MatchAt(s, i, sub) ==
    /\ i >= 1
    /\ i + Len(sub) - 1 <= Len(s)
    /\ \A j \in 1..Len(sub) : s[i + j - 1] = sub[j]

\* the Python test: sub in s
Contains(s, sub) == \E i \in 1..(Len(s) - Len(sub) + 1) : MatchAt(s, i, sub)

\* the index after the longest run, from index i on, of characters satisfying P
RunEnd(s, i, P(_)) ==
    IF \A j \in i..Len(s) : P(s[j])
    THEN Len(s) + 1
    ELSE CHOOSE k \in i..Len(s) : ~P(s[k]) /\ \A j \in i..(k - 1) : P(s[j])

\* str.strip()
strip(s) ==
    LET a == RunEnd(s, 1, IsSpace)
    IN  IF a > Len(s)
        THEN << >>
        ELSE LET b == CHOOSE k \in a..Len(s) :
                          ~IsSpace(s[k]) /\ \A j \in (k + 1)..Len(s) : IsSpace(s[j])
             IN  SubSeq(s, a, b)

\* str.startswith(prefix)
startswith(s, prefix) == MatchAt(s, 1, prefix)

RECURSIVE SplitFrom(_, _)
\* the lines of s from index i on
SplitFrom(s, i) ==
    IF \A j \in i..Len(s) : s[j] # "\n"
    THEN <<SubSeq(s, i, Len(s))>>
    ELSE LET k == CHOOSE k \in i..Len(s) : s[k] = "\n" /\ \A j \in i..(k - 1) : s[j] # "\n"
         IN  <<SubSeq(s, i, k - 1)>> \o SplitFrom(s, k + 1)

\* str.split on the newline
split_lines(s) == SplitFrom(s, 1)

RECURSIVE JoinFrom(_, _)
JoinFrom(lines, k) ==
    IF k > Len(lines) THEN << >>
    ELSE IF k = Len(lines) THEN lines[k]
    ELSE lines[k] \o <<"\n">> \o JoinFrom(lines, k + 1)

\* "\n".join(lines)
join_lines(lines) == JoinFrom(lines, 1)

\* str.replace(old, "") for a non-empty old: the occurrences are removed left to right
RECURSIVE RemoveFrom(_, _, _)
RemoveFrom(s, i, old) ==
    IF i > Len(s) THEN << >>
    ELSE IF MatchAt(s, i, old) THEN RemoveFrom(s, i + Len(old), old)
    ELSE <<s[i]>> \o RemoveFrom(s, i + 1, old)

remove_all(s, old) == RemoveFrom(s, 1, old)

(***************************************************************************)
(* Python values: None, and a str with its text.                           *)
(***************************************************************************)
NoneValue == [t |-> "NoneType"]

Str(text) == [t |-> "str", v |-> text]

IsStr(value) == value.t = "str"

(***************************************************************************)
(* Response Formatter: enhance_response_formatting.                        *)
(***************************************************************************)
FenceMarker == <<Backtick,Backtick,Backtick>>

OpenPythonFence == <<Backtick,Backtick,Backtick,"p","y","t","h","o","n">>

\* import\s+[\w\.]+ matches at index i
ImportSignatureAt(s, i) ==
    /\ MatchAt(s, i, <<"i","m","p","o","r","t">>)
    /\ LET a == i + 6
           b == RunEnd(s, a, IsSpace)
       IN  b > a /\ b <= Len(s) /\ IsWordOrDot(s[b])

\* kw\s+\w+\( matches at index i, for kw one of def, class, function
CallSignatureAt(s, i, kw) ==
    /\ MatchAt(s, i, kw)
    /\ LET a == i + Len(kw)
           b == RunEnd(s, a, IsSpace)
           c == RunEnd(s, b, IsWord)
       IN  b > a /\ c > b /\ c <= Len(s) /\ s[c] = "("

\* (import\s+[\w\.]+|def\s+\w+\(|class\s+\w+\(|function\s+\w+\() matches at index i
CodeSignatureAt(s, i) ==
    /\ i <= Len(s)
    /\ s[i] \in {"i", "d", "c", "f"}
    /\ \/ ImportSignatureAt(s, i)
       \/ CallSignatureAt(s, i, <<"d","e","f">>)
       \/ CallSignatureAt(s, i, <<"c","l","a","s","s">>)
       \/ CallSignatureAt(s, i, <<"f","u","n","c","t","i","o","n">>)

\* re.search of the code signature in the whole response
SearchCodeSignature(s) == \E i \in 1..Len(s) : CodeSignatureAt(s, i)

\* re.match of the code signature at the start of line.strip()
MatchCodeSignature(line) == CodeSignatureAt(strip(line), 1)

RECURSIVE FenceLoop_NoFinalClose(_, _, _, _)
\* the loop over the lines without the test of in_code_block after it
FenceLoop_NoFinalClose(lines, k, in_code_block, formatted_lines) ==
    IF k > Len(lines)
    THEN formatted_lines
    ELSE LET line == lines[k]
             opens == MatchCodeSignature(line) /\ ~in_code_block
             closes == /\ ~opens
                       /\ in_code_block
                       /\ strip(line) = << >>
                       /\ Len(formatted_lines) > 0
             before == IF opens THEN Append(formatted_lines, OpenPythonFence)
                       ELSE IF closes THEN Append(formatted_lines, FenceMarker)
                       ELSE formatted_lines
             in_next == IF opens THEN TRUE ELSE IF closes THEN FALSE ELSE in_code_block
         IN  FenceLoop_NoFinalClose(lines, k + 1, in_next, Append(before, line))

RECURSIVE FenceLoop(_, _, _, _)
\* the loop over the lines: lines[k..] with the loop variables in_code_block and formatted_lines
FenceLoop(lines, k, in_code_block, formatted_lines) ==
    IF k > Len(lines)
    THEN IF in_code_block THEN Append(formatted_lines, FenceMarker) ELSE formatted_lines
    ELSE LET line == lines[k]
             opens == MatchCodeSignature(line) /\ ~in_code_block
             closes == /\ ~opens
                       /\ in_code_block
                       /\ strip(line) = << >>
                       /\ Len(formatted_lines) > 0
             before == IF opens THEN Append(formatted_lines, OpenPythonFence)
                       ELSE IF closes THEN Append(formatted_lines, FenceMarker)
                       ELSE formatted_lines
             in_next == IF opens THEN TRUE ELSE IF closes THEN FALSE ELSE in_code_block
         IN  FenceLoop(lines, k + 1, in_next, Append(before, line))

\* the first step: bare code is put in a fence
FenceBareCode(response) ==
    IF ~Contains(response, FenceMarker) /\ SearchCodeSignature(response)
    THEN join_lines(FenceLoop(split_lines(response), 1, FALSE, << >>))
    ELSE response

important_keywords ==
    << <<"I","M","P","O","R","T","A","N","T">>, <<"W","A","R","N","I","N","G">>, <<"C","R","I","T","I","C","A","L">>, <<"N","O","T","E">>, <<"C","A","U","T","I","O","N">> >>

\* keyword followed by a colon occurs at index i, letter case ignored (re.IGNORECASE)
KeywordAt(s, i, keyword) ==
    /\ i + Len(keyword) <= Len(s)
    /\ lower_char(s[i]) = lower_char(keyword[1])
    /\ \A j \in 2..Len(keyword) : lower_char(s[i + j - 1]) = lower_char(keyword[j])
    /\ s[i + Len(keyword)] = ":"

\* The matches of (keyword:)(.*?)(\n|$), found left to right without overlap.  A
\* match runs to the end of its line, newline included, so the matches are the
\* first occurrence of the keyword and its colon in each line.
KeywordMatches(s, keyword) ==
    {i \in 1..Len(s) :
        /\ KeywordAt(s, i, keyword)
        /\ \A j \in 1..(i - 1) :
              KeywordAt(s, j, keyword) => \E n \in j..(i - 1) : s[n] = "\n"}

RECURSIVE EmphasizeFrom(_, _, _, _)
\* s from index i on, with every match of `starts` rewritten to **_keyword:_** rest
EmphasizeFrom(s, i, starts, n) ==
    IF ~\E m \in starts : m >= i
    THEN SubSeq(s, i, Len(s))
    ELSE LET m == CHOOSE m \in starts : m >= i /\ \A o \in starts : o >= i => m <= o
         IN  SubSeq(s, i, m - 1) \o <<"*","*","_">> \o SubSeq(s, m, m + n) \o <<"_","*","*"," ">>
                \o EmphasizeFrom(s, m + n + 1, starts, n)

\* re.sub of (keyword:)(.*?)(\n|$) by **_\1_** \2\3, with re.IGNORECASE
EmphasizeKeyword(s, keyword) ==
    LET starts == KeywordMatches(s, keyword)
    IN  IF starts = {} THEN s ELSE EmphasizeFrom(s, 1, starts, Len(keyword))

RECURSIVE EmphasizeAll(_, _)
\* the loop over important_keywords, from the k-th keyword on
EmphasizeAll(s, k) ==
    IF k > Len(important_keywords) THEN s
    ELSE EmphasizeAll(EmphasizeKeyword(s, important_keywords[k]), k + 1)

\* (?<!\n)^(\d+\.\s) with re.MULTILINE matches only at the start of the text: after
\* a newline the lookbehind fails
NumberedMarkerAtStart(s) ==
    LET d == RunEnd(s, 1, IsDigit)
    IN  d > 1 /\ d + 1 <= Len(s) /\ s[d] = "." /\ IsSpace(s[d + 1])

\* (?<!\n)^(-\s) with re.MULTILINE, likewise
BulletMarkerAtStart(s) == Len(s) >= 2 /\ s[1] = "-" /\ IsSpace(s[2])

NormalizeNumbered(s) == IF NumberedMarkerAtStart(s) THEN <<"\n">> \o s ELSE s

NormalizeBullet(s) == IF BulletMarkerAtStart(s) THEN <<"\n">> \o s ELSE s

\* enhance_response_formatting(response) for a str response
enhance_response_formatting(response) ==
    NormalizeBullet(NormalizeNumbered(EmphasizeAll(FenceBareCode(response), 1)))

(***************************************************************************)
(* Simulated Responder: get_simulated_response.                            *)
(***************************************************************************)
\* avos_knowledge[avos]
knowledge_avos ==
    <<"A","V","O","S"," ","(","A","u","t","o","n","o","m","o","u","s"," ","V","e","h","i","c","l",
      "e"," ","O","p","e","r","a","t","i","n","g"," ","S","y","s","t","e","m",")"," ","i","s"," ",
      "N","V","I","D","I","A","'","s"," ","c","o","m","p","r","e","h","e","n","s","i","v","e"," ",
      "s","o","f","t","w","a","r","e"," ","s","t","a","c","k"," ","d","e","s","i","g","n","e","d",
      " ","f","o","r"," ","a","u","t","o","n","o","m","o","u","s"," ","v","e","h","i","c","l","e",
      "s","."," ","I","t"," ","p","r","o","v","i","d","e","s"," ","a"," ","f","l","e","x","i","b",
      "l","e",","," ","s","c","a","l","a","b","l","e"," ","p","l","a","t","f","o","r","m"," ","t",
      "h","a","t"," ","i","n","t","e","g","r","a","t","e","s"," ","p","e","r","c","e","p","t","i",
      "o","n",","," ","p","l","a","n","n","i","n","g",","," ","a","n","d"," ","c","o","n","t","r",
      "o","l"," ","s","y","s","t","e","m","s"," ","n","e","c","e","s","s","a","r","y"," ","f","o",
      "r"," ","s","e","l","f","-","d","r","i","v","i","n","g"," ","c","a","p","a","b","i","l","i",
      "t","i","e","s",".">>

\* avos_knowledge[drive]
knowledge_drive ==
    <<"N","V","I","D","I","A"," ","D","R","I","V","E"," ","i","s"," ","a"," ","p","l","a","t","f",
      "o","r","m"," ","t","h","a","t"," ","u","s","e","s"," ","A","V","O","S"," ","a","n","d"," ",
      "i","s"," ","d","e","s","i","g","n","e","d"," ","f","o","r"," ","d","e","v","e","l","o","p",
      "i","n","g"," ","a","u","t","o","n","o","m","o","u","s"," ","v","e","h","i","c","l","e","s",
      "."," ","I","t"," ","i","n","c","l","u","d","e","s"," ","b","o","t","h"," ","h","a","r","d",
      "w","a","r","e"," ","(","l","i","k","e"," ","t","h","e"," ","D","R","I","V","E"," ","A","G",
      "X"," ","O","r","i","n"," ","s","y","s","t","e","m","-","o","n","-","a","-","c","h","i","p",
      ")"," ","a","n","d"," ","s","o","f","t","w","a","r","e"," ","c","o","m","p","o","n","e","n",
      "t","s"," ","t","h","a","t"," ","w","o","r","k"," ","t","o","g","e","t","h","e","r"," ","t",
      "o"," ","e","n","a","b","l","e"," ","s","e","l","f","-","d","r","i","v","i","n","g"," ","c",
      "a","p","a","b","i","l","i","t","i","e","s",".">>

\* avos_knowledge[driveos]
knowledge_driveos ==
    <<"D","r","i","v","e","O","S"," ","i","s"," ","t","h","e"," ","o","p","e","r","a","t","i","n",
      "g"," ","s","y","s","t","e","m"," ","l","a","y","e","r"," ","o","f"," ","N","V","I","D","I",
      "A","'","s"," ","a","u","t","o","n","o","m","o","u","s"," ","v","e","h","i","c","l","e"," ",
      "s","o","f","t","w","a","r","e"," ","s","t","a","c","k","."," ","I","t"," ","p","r","o","v",
      "i","d","e","s"," ","a"," ","f","o","u","n","d","a","t","i","o","n"," ","f","o","r"," ","r",
      "u","n","n","i","n","g"," ","a","u","t","o","n","o","m","o","u","s"," ","d","r","i","v","i",
      "n","g"," ","a","p","p","l","i","c","a","t","i","o","n","s",","," ","m","a","n","a","g","i",
      "n","g"," ","h","a","r","d","w","a","r","e"," ","r","e","s","o","u","r","c","e","s",","," ",
      "a","n","d"," ","e","n","s","u","r","i","n","g"," ","r","e","a","l","-","t","i","m","e"," ",
      "p","e","r","f","o","r","m","a","n","c","e"," ","f","o","r"," ","c","r","i","t","i","c","a",
      "l"," ","d","r","i","v","i","n","g"," ","f","u","n","c","t","i","o","n","s",".">>

\* avos_knowledge[ndas]
knowledge_ndas ==
    <<"N","D","A","S"," ","(","N","V","I","D","I","A"," ","D","a","t","a"," ","A","n","n","o","t",
      "a","t","i","o","n"," ","S","y","s","t","e","m",")"," ","i","s"," ","a"," ","t","o","o","l",
      " ","f","o","r"," ","l","a","b","e","l","i","n","g"," ","a","n","d"," ","a","n","n","o","t",
      "a","t","i","n","g"," ","s","e","n","s","o","r"," ","d","a","t","a"," ","c","o","l","l","e",
      "c","t","e","d"," ","f","r","o","m"," ","v","e","h","i","c","l","e","s","."," ","I","t"," ",
      "h","e","l","p","s"," ","c","r","e","a","t","e"," ","t","r","a","i","n","i","n","g"," ","d",
      "a","t","a","s","e","t","s"," ","f","o","r"," ","m","a","c","h","i","n","e"," ","l","e","a",
      "r","n","i","n","g"," ","m","o","d","e","l","s"," ","u","s","e","d"," ","i","n"," ","a","u",
      "t","o","n","o","m","o","u","s"," ","d","r","i","v","i","n","g"," ","s","y","s","t","e","m",
      "s",".">>

\* avos_knowledge[feature]
knowledge_feature ==
    <<"A","V","O","S"," ","i","n","c","l","u","d","e","s"," ","m","a","n","y"," ","f","e","a","t",
      "u","r","e","s"," ","s","u","c","h"," ","a","s",":","\n","-"," ","S","e","n","s","o","r",
      " ","f","u","s","i","o","n"," ","f","o","r"," ","c","o","m","b","i","n","i","n","g"," ","d",
      "a","t","a"," ","f","r","o","m"," ","c","a","m","e","r","a","s",","," ","r","a","d","a","r",
      ","," ","a","n","d"," ","l","i","d","a","r","\n","-"," ","P","e","r","c","e","p","t","i",
      "o","n"," ","s","y","s","t","e","m","s"," ","f","o","r"," ","o","b","j","e","c","t"," ","d",
      "e","t","e","c","t","i","o","n"," ","a","n","d"," ","c","l","a","s","s","i","f","i","c","a",
      "t","i","o","n","\n","-"," ","P","l","a","n","n","i","n","g"," ","a","n","d"," ","d","e",
      "c","i","s","i","o","n","-","m","a","k","i","n","g"," ","a","l","g","o","r","i","t","h","m",
      "s","\n","-"," ","C","o","n","t","r","o","l"," ","s","y","s","t","e","m","s"," ","f","o",
      "r"," ","v","e","h","i","c","l","e"," ","o","p","e","r","a","t","i","o","n","\n","-"," ",
      "S","i","m","u","l","a","t","i","o","n"," ","c","a","p","a","b","i","l","i","t","i","e","s",
      " ","f","o","r"," ","t","e","s","t","i","n","g"," ","a","n","d"," ","v","a","l","i","d","a",
      "t","i","o","n","\n","-"," ","O","v","e","r","-","t","h","e","-","a","i","r"," ","u","p",
      "d","a","t","e"," ","f","u","n","c","t","i","o","n","a","l","i","t","y">>

\* avos_knowledge[dtsi]
knowledge_dtsi ==
    <<"I","n"," ","t","h","e"," ","c","o","n","t","e","x","t"," ","o","f"," ","D","r","i","v","e",
      "O","S",","," ","a"," ","D","T","S","I"," ","(","D","e","v","i","c","e"," ","T","r","e","e",
      " ","S","o","u","r","c","e"," ","I","n","c","l","u","d","e",")"," ","f","i","l","e"," ","i",
      "s"," ","u","s","e","d"," ","t","o"," ","d","e","s","c","r","i","b","e"," ","h","a","r","d",
      "w","a","r","e"," ","c","o","m","p","o","n","e","n","t","s"," ","a","n","d"," ","t","h","e",
      "i","r"," ","p","r","o","p","e","r","t","i","e","s","."," ","T","h","e"," ","\"","s","t",
      "a","r","t","u","p","c","m","d","\""," ","D","T","S","I"," ","f","i","l","e"," ","s","p",
      "e","c","i","f","i","c","a","l","l","y"," ","c","o","n","t","a","i","n","s"," ","c","o","m",
      "m","a","n","d","s"," ","t","h","a","t"," ","a","r","e"," ","e","x","e","c","u","t","e","d",
      " ","d","u","r","i","n","g"," ","s","y","s","t","e","m"," ","s","t","a","r","t","u","p"," ",
      "t","o"," ","c","o","n","f","i","g","u","r","e"," ","h","a","r","d","w","a","r","e"," ","c",
      "o","m","p","o","n","e","n","t","s"," ","a","n","d"," ","i","n","i","t","i","a","l","i","z",
      "e"," ","s","e","r","v","i","c","e","s",".">>

\* avos_knowledge[steps]
knowledge_steps ==
    <<"T","o"," ","i","n","t","e","g","r","a","t","e"," ","D","r","i","v","e","O","S"," ","c","h",
      "a","n","g","e","s"," ","i","n","t","o"," ","N","D","A","S",","," ","y","o","u"," ","w","o",
      "u","l","d"," ","t","y","p","i","c","a","l","l","y"," ","f","o","l","l","o","w"," ","t","h",
      "e","s","e"," ","s","t","e","p","s",":","\n","1","."," ","D","e","v","e","l","o","p"," ",
      "a","n","d"," ","t","e","s","t"," ","y","o","u","r"," ","c","h","a","n","g","e","s"," ","i",
      "n"," ","a"," ","D","r","i","v","e","O","S"," ","d","e","v","e","l","o","p","m","e","n","t",
      " ","e","n","v","i","r","o","n","m","e","n","t","\n","2","."," ","D","o","c","u","m","e",
      "n","t"," ","t","h","e"," ","c","h","a","n","g","e","s"," ","t","h","o","r","o","u","g","h",
      "l","y","\n","3","."," ","S","u","b","m","i","t"," ","t","h","e"," ","c","h","a","n","g",
      "e","s"," ","t","h","r","o","u","g","h"," ","t","h","e"," ","c","o","d","e"," ","r","e","v",
      "i","e","w"," ","p","r","o","c","e","s","s","\n","4","."," ","W","o","r","k"," ","w","i",
      "t","h"," ","t","h","e"," ","N","D","A","S"," ","t","e","a","m"," ","t","o"," ","i","n","t",
      "e","g","r","a","t","e"," ","a","n","d"," ","t","e","s","t"," ","t","h","e"," ","c","h","a",
      "n","g","e","s","\n","5","."," ","M","o","n","i","t","o","r"," ","a","n","d"," ","v","a",
      "l","i","d","a","t","e"," ","t","h","e"," ","i","n","t","e","g","r","a","t","i","o","n"," ",
      "t","h","r","o","u","g","h"," ","r","e","g","r","e","s","s","i","o","n"," ","t","e","s","t",
      "i","n","g">>

\* avos_knowledge[secpolicy]
knowledge_secpolicy ==
    <<"A","V","O","S"," ","C","u","s","t","o","m","i","z","a","t","i","o","n","s"," ","f","o","r",
      " ","S","e","c","u","r","i","t","y"," ","P","o","l","i","c","y"," ","(","S","e","c","P","o",
      "l","i","c","y",")"," ","i","n","c","l","u","d","e"," ","c","o","n","f","i","g","u","r","a",
      "t","i","o","n","s"," ","f","o","r"," ","m","o","u","n","t","i","n","g"," ","p","o","l","i",
      "c","i","e","s"," ","a","n","d"," ","f","o","l","d","e","r"," ","h","i","e","r","a","r","c",
      "h","y"," ","s","u","p","p","o","r","t","."," ","S","e","c","P","o","l","i","c","y"," ","f",
      "i","l","e","s"," ","a","r","e"," ","a","v","a","i","l","a","b","l","e"," ","f","o","r"," ",
      "b","o","t","h"," ","d","e","b","u","g"," ","a","n","d"," ","p","r","o","d","u","c","t","i",
      "o","n"," ","e","n","v","i","r","o","n","m","e","n","t","s",","," ","t","y","p","i","c","a",
      "l","l","y"," ","n","a","m","e","d"," ","p","o","l","i","c","y","_","d","e","b","u","g","_",
      "o","r","i","n","_","g","o","s","_","v","m","_","s","a","f","e","t","y",".","t","x","t"," ",
      "a","n","d"," ","p","o","l","i","c","y","_","p","r","o","d","_","o","r","i","n","_","g","o",
      "s","_","v","m","_","s","a","f","e","t","y",".","t","x","t"," ","r","e","s","p","e","c","t",
      "i","v","e","l","y","."," ","T","h","e"," ","s","e","c","u","r","i","t","y"," ","p","o","l",
      "i","c","y"," ","e","n","f","o","r","c","e","s"," ","f","o","l","d","e","r"," ","h","i","e",
      "r","a","r","c","h","y"," ","a","n","d"," ","m","o","u","n","t","i","n","g"," ","r","e","s",
      "t","r","i","c","t","i","o","n","s",".">>

\* the dict avos_knowledge, in its insertion order
avos_knowledge ==
    << [keyword |-> <<"a","v","o","s">>, info |-> knowledge_avos],
       [keyword |-> <<"d","r","i","v","e">>, info |-> knowledge_drive],
       [keyword |-> <<"d","r","i","v","e","o","s">>, info |-> knowledge_driveos],
       [keyword |-> <<"n","d","a","s">>, info |-> knowledge_ndas],
       [keyword |-> <<"f","e","a","t","u","r","e">>, info |-> knowledge_feature],
       [keyword |-> <<"d","t","s","i">>, info |-> knowledge_dtsi],
       [keyword |-> <<"s","t","e","p","s">>, info |-> knowledge_steps],
       [keyword |-> <<"s","e","c","p","o","l","i","c","y">>, info |-> knowledge_secpolicy] >>

default_response ==
    <<"I"," ","d","o","n","'","t"," ","h","a","v","e"," ","s","p","e","c","i","f","i","c"," ","i",
      "n","f","o","r","m","a","t","i","o","n"," ","a","b","o","u","t"," ","t","h","a","t"," ","a",
      "s","p","e","c","t"," ","o","f"," ","A","V","O","S","."," ","C","o","u","l","d"," ","y","o",
      "u"," ","a","s","k"," ","s","o","m","e","t","h","i","n","g"," ","m","o","r","e"," ","g","e",
      "n","e","r","a","l"," ","a","b","o","u","t"," ","A","V","O","S"," ","c","a","p","a","b","i",
      "l","i","t","i","e","s"," ","o","r"," ","f","e","a","t","u","r","e","s","?">>
RECURSIVE FirstKeyword_NoBreak(_, _)
\* the loop without its break: the index of the last table entry, from the k-th on,
\* whose keyword is in the lower-cased prompt; 0 when there is none
FirstKeyword_NoBreak(prompt_lower, k) ==
    IF k > Len(avos_knowledge) THEN 0
    ELSE LET later == FirstKeyword_NoBreak(prompt_lower, k + 1)
         IN  IF later # 0 THEN later
             ELSE IF Contains(prompt_lower, lower(avos_knowledge[k].keyword)) THEN k
             ELSE 0

\* the index of the first table entry, from the k-th on, whose keyword is in the
\* lower-cased prompt; 0 when the loop ends without a break
RECURSIVE FirstKeyword(_, _)
FirstKeyword(prompt_lower, k) ==
    IF k > Len(avos_knowledge) THEN 0
    ELSE IF Contains(prompt_lower, lower(avos_knowledge[k].keyword)) THEN k
    ELSE FirstKeyword(prompt_lower, k + 1)

\* the response after the loop over avos_knowledge.items()
KeywordResponse(prompt_lower) ==
    LET k == FirstKeyword(prompt_lower, 1)
    IN  IF k = 0 THEN default_response ELSE avos_knowledge[k].info

\* f"Based on the available information: {context}\n\nHowever, ..."
ContextResponse(context) ==
    <<"B","a","s","e","d"," ","o","n"," ","t","h","e"," ","a","v","a","i","l","a","b","l","e"," ",
      "i","n","f","o","r","m","a","t","i","o","n",":"," ">> \o context
        \o <<"\n","\n","H","o","w","e","v","e","r",","," ","p","l","e","a","s","e"," ","n","o",
             "t","e"," ","t","h","a","t"," ","t","h","i","s"," ","i","n","f","o","r","m","a","t",
             "i","o","n"," ","m","a","y"," ","b","e"," ","l","i","m","i","t","e","d","."," ","F",
             "o","r"," ","m","o","r","e"," ","d","e","t","a","i","l","e","d"," ","i","n","f","o",
             "r","m","a","t","i","o","n",","," ","p","l","e","a","s","e"," ","c","o","n","s","u",
             "l","t"," ","t","h","e"," ","o","f","f","i","c","i","a","l"," ","N","V","I","D","I",
             "A"," ","A","V","O","S"," ","d","o","c","u","m","e","n","t","a","t","i","o","n",".">>

\* the test of the context left out: the response of the loop is kept
WithContext_Ignored(response, context) == response

\* the response after the test of the context and of the default response
WithContext(response, context) ==
    IF context # << >> /\ Contains(response, <<"I"," ","d","o","n","'","t"," ","h","a","v","e",
                                               " ","s","p","e","c","i","f","i","c"," ","i","n",
                                               "f","o","r","m","a","t","i","o","n">>)
    THEN ContextResponse(context)
    ELSE response

\* the special cases without the first one, the one for driveos and ndas
SpecialCases_NoSteps(response, prompt_lower) ==
    LET r2 == IF Contains(prompt_lower, <<"d","t","s","i">>) /\ Contains(prompt_lower, <<"s","t","a","r","t","u","p","c","m",
                                                                              "d">>)
              THEN knowledge_dtsi ELSE response
        r3 == IF \/ Contains(prompt_lower, <<"s","e","c","p","o","l","i","c","y">>)
                 \/ Contains(prompt_lower, <<"s","e","c","u","r","i","t","y">>) /\ Contains(prompt_lower, <<"p","o","l","i","c","y">>)
              THEN knowledge_secpolicy ELSE r2
    IN  r3

\* the three special cases, in the order of the source: each overrides the ones before
SpecialCases(response, prompt_lower) ==
    LET r1 == IF Contains(prompt_lower, <<"d","r","i","v","e","o","s">>) /\ Contains(prompt_lower, <<"n","d","a","s">>)
              THEN knowledge_steps ELSE response
        r2 == IF Contains(prompt_lower, <<"d","t","s","i">>) /\ Contains(prompt_lower, <<"s","t","a","r","t","u","p","c","m",
                                                                              "d">>)
              THEN knowledge_dtsi ELSE r1
        r3 == IF \/ Contains(prompt_lower, <<"s","e","c","p","o","l","i","c","y">>)
                 \/ Contains(prompt_lower, <<"s","e","c","u","r","i","t","y">>) /\ Contains(prompt_lower, <<"p","o","l","i","c","y">>)
              THEN knowledge_secpolicy ELSE r2
    IN  r3

\* the prompt matched as it is written, without prompt.lower()
SimulatedAnswer_CaseSensitive(prompt, context) ==
    SpecialCases(WithContext(KeywordResponse(prompt), context), prompt)

\* the response get_simulated_response hands to the Response Formatter
SimulatedAnswer(prompt, context) ==
    LET prompt_lower == lower(prompt)
    IN  SpecialCases(WithContext(KeywordResponse(prompt_lower), context), prompt_lower)

\* get_simulated_response without its call of the Response Formatter
get_simulated_response_Unformatted(prompt, context) == SimulatedAnswer(prompt, context)

\* get_simulated_response(prompt, context) for a str prompt and a str context: no
\* statement of its try block raises, so neither its except nor safe_response acts
get_simulated_response(prompt, context) ==
    enhance_response_formatting(SimulatedAnswer(prompt, context))

\* the header that opens the rendered block
db_header ==
    <<"\n","I","M","P","O","R","T","A","N","T",":"," ","T","h","e"," ","f","o","l","l","o","w",
      "i","n","g"," ","i","n","f","o","r","m","a","t","i","o","n"," ","c","o","n","t","a","i","n",
      "s"," ","c","o","d","e"," ","b","l","o","c","k","s"," ","t","h","a","t"," ","m","u","s","t",
      " ","b","e"," ","p","r","e","s","e","r","v","e","d"," ","E","X","A","C","T","L","Y"," ","a",
      "s"," ","s","h","o","w","n",",","\n","w","i","t","h"," ","t","h","e","i","r"," ","o","r",
      "i","g","i","n","a","l"," ","f","o","r","m","a","t","t","i","n","g",","," ","i","n","d","e",
      "n","t","a","t","i","o","n",","," ","c","o","m","m","e","n","t","s",","," ","a","n","d"," ",
      "w","h","i","t","e","s","p","a","c","e",".","\n","=","=","=","=","="," ","D","A","T","A",
      "B","A","S","E"," ","I","N","F","O","R","M","A","T","I","O","N"," ","S","T","A","R","T"," ",
      "=","=","=","=","=","\n","\n">>

db_footer ==
    <<"\n","=","=","=","=","="," ","D","A","T","A","B","A","S","E"," ","I","N","F","O","R","M",
      "A","T","I","O","N"," ","E","N","D"," ","=","=","=","=","=","\n">>

\* the instruction that closes the rendered block
db_reminder ==
    <<"\n","R","E","M","E","M","B","E","R",":"," ","W","h","e","n"," ","i","n","c","l","u","d",
      "i","n","g"," ","c","o","d","e"," ","b","l","o","c","k","s"," ","i","n"," ","y","o","u","r",
      " ","r","e","s","p","o","n","s","e",","," ","r","e","p","r","o","d","u","c","e"," ","t","h",
      "e","m"," ","E","X","A","C","T","L","Y"," ","a","s"," ","s","h","o","w","n"," ","a","b","o",
      "v","e",",","\n","w","i","t","h"," ","t","h","e"," ","s","a","m","e"," ","f","o","r","m",
      "a","t","t","i","n","g",","," ","i","n","d","e","n","t","a","t","i","o","n",","," ","c","o",
      "m","m","e","n","t","s",","," ","a","n","d"," ","w","h","i","t","e","s","p","a","c","e",".",
      " ","D","o"," ","n","o","t"," ","m","o","d","i","f","y"," ","a","n","y"," ","c","o","d","e",
      ".","\n">>
(***************************************************************************)
(* Context Formatter: format_db_data_for_llm.                              *)
(*                                                                         *)
(* A payload is None, a list [t |-> "list", items |-> <<...>>], a dict     *)
(* [t |-> "dict", entries |-> <<...>>] whose entries are the <<key, value>>*)
(* pairs in insertion order, or a str.  Keys are texts; a value is a text   *)
(* or the JSON value null.                                                 *)
(***************************************************************************)
\* the JSON value null (None) as the value of an entry: a tuple that is no text, a
\* text being a tuple of single characters
JsonNull == <<"null">>

\* f"{value}": the text of a value
format_value(value) == IF value = JsonNull THEN <<"N","o","n","e">> ELSE value

List(items) == [t |-> "list", items |-> items]

Dict(entries) == [t |-> "dict", entries |-> entries]

\* key in item
HasKey(entries, key) == \E k \in 1..Len(entries) : entries[k][1] = key

\* item.get(key)
GetKey(entries, key) == entries[CHOOSE k \in 1..Len(entries) : entries[k][1] = key][2]

\* Python truthiness of a payload, as tested by: if not db_data
Truthy(value) ==
    CASE value.t = "NoneType" -> FALSE
      [] value.t = "list" -> value.items # << >>
      [] value.t = "dict" -> value.entries # << >>
      [] value.t = "str" -> value.v # << >>

DecimalDigits == <<"0","1","2","3","4","5","6","7","8","9">>

RECURSIVE IntText(_)
\* str(n) for n >= 0
IntText(n) ==
    IF n < 10 THEN <<DecimalDigits[n + 1]>>
    ELSE IntText(n \div 10) \o <<DecimalDigits[(n % 10) + 1]>>

\* f"\n<CODE_BLOCK_START lang=\"{code_block_lang}\">\n"
CodeBlockStart(code_block_lang) ==
    <<"\n","<","C","O","D","E","_","B","L","O","C","K","_","S","T","A","R","T"," ","l","a","n",
      "g","=","\"">> \o code_block_lang \o <<"\"",">","\n">>

CodeBlockEnd == <<"<","C","O","D","E","_","B","L","O","C","K","_","E","N","D",">","\n","\n">>

\* line.strip() starts with the fence marker
IsFenceOpen(line) == startswith(strip(line), FenceMarker)

\* the closing fence tested the way the opening fence is
IsFenceClose_Prefix(line) == startswith(strip(line), FenceMarker)

\* line.strip() is the fence marker
IsFenceClose(line) == strip(line) = FenceMarker

\* line.strip(), its fence markers removed, stripped again
FenceLang(line) == strip(remove_all(strip(line), FenceMarker))

RECURSIVE ContentLoop(_, _, _, _)
\* the loop over the lines of the content: lines[k..] with the loop variables in_code_block, and
\* the text appended to formatted_data so far
ContentLoop(lines, k, in_code_block, formatted) ==
    IF k > Len(lines) THEN formatted
    ELSE LET line == lines[k]
         IN  IF IsFenceOpen(line) /\ ~in_code_block
             THEN ContentLoop(lines, k + 1, TRUE,
                      formatted \o CodeBlockStart(FenceLang(line)) \o line \o <<"\n">>)
             ELSE IF IsFenceClose(line) /\ in_code_block
             THEN ContentLoop(lines, k + 1, FALSE,
                      formatted \o line \o <<"\n">> \o CodeBlockEnd)
             ELSE ContentLoop(lines, k + 1, in_code_block, formatted \o line \o <<"\n">>)

\* what the branch for an item with the key content appends, for a str content
FormatContent(content) == ContentLoop(split_lines(content), 1, FALSE, << >>) \o <<"\n">>

RECURSIVE OtherFields(_, _, _)
\* f"- {key}: {value}\n" for the entries from the k-th on whose key is not in skip
OtherFields(entries, k, skip) ==
    IF k > Len(entries) THEN << >>
    ELSE (IF entries[k][1] \in skip THEN << >>
          ELSE <<"-"," ">> \o entries[k][1] \o <<":"," ">> \o format_value(entries[k][2]) \o <<"\n">>)
         \o OtherFields(entries, k + 1, skip)

\* what the loop body appends for the i-th item (i counted from 0)
FormatItem(item, i) ==
    IF item.t = "dict"
    THEN (IF HasKey(item.entries, <<"p","a","g","e","T","i","t","l","e">>)
          THEN <<"#","#"," ">> \o format_value(GetKey(item.entries, <<"p","a","g","e","T","i","t","l","e">>)) \o <<"\n","\n">>
          ELSE << >>)
         \o (IF HasKey(item.entries, <<"c","o","n","t","e","n","t">>)
             THEN FormatContent(GetKey(item.entries, <<"c","o","n","t","e","n","t">>)) ELSE << >>)
         \o OtherFields(item.entries, 1, {<<"p","a","g","e","T","i","t","l","e">>, <<"c","o","n","t","e","n","t">>})
         \o <<"\n","-","-","-","\n","\n">>
    ELSE <<"I","t","e","m"," ">> \o IntText(i + 1) \o <<":","\n">> \o item.v \o <<"\n","\n">>

RECURSIVE FormatItems(_, _)
FormatItems(items, k) ==
    IF k > Len(items) THEN << >>
    ELSE FormatItem(items[k], k - 1) \o FormatItems(items, k + 1)

\* format_db_data_for_llm(db_data) raises: content.split of a content that is no text,
\* in an item of a list
FormatRaises(db_data) ==
    /\ Truthy(db_data)
    /\ db_data.t = "list"
    /\ \E k \in 1..Len(db_data.items) :
          /\ db_data.items[k].t = "dict"
          /\ HasKey(db_data.items[k].entries, <<"c","o","n","t","e","n","t">>)
          /\ GetKey(db_data.items[k].entries, <<"c","o","n","t","e","n","t">>) = JsonNull

\* format_db_data_for_llm(db_data): the text returned, for a db_data on which it does
\* not raise
format_db_data_for_llm(db_data) ==
    IF ~Truthy(db_data) THEN << >>
    ELSE db_header
         \o (CASE db_data.t = "list" -> FormatItems(db_data.items, 1)
               [] db_data.t = "dict" ->
                     <<"R","e","t","r","i","e","v","e","d"," ","i","n","f","o","r","m","a","t",
                       "i","o","n",":","\n","\n">> \o OtherFields(db_data.entries, 1, {})
               [] OTHER -> <<"R","e","t","r","i","e","v","e","d"," ","i","n","f","o","r","m","a",
                             "t","i","o","n",":","\n","\n">> \o db_data.v)
         \o db_footer \o db_reminder

(***************************************************************************)
(* The token cache file and the token endpoint.                            *)
(*                                                                         *)
(* A JSON object is a function from its keys to its values.  The content   *)
(* of the cache file is a text.  json.dump hands the text of an object to  *)
(* the file object chunk by chunk; the chunks stay in the buffer of the    *)
(* file object until the file is closed, and closing writes them at the    *)
(* start of the file.  Only open(file_path, "w") truncates the file: what  *)
(* another process wrote beyond the end of the text written stays.         *)
(***************************************************************************)
\* the order in which the keys of an object are written (created_at, added last, is
\* the last key of the dict)
KeyOrder ==
    <<"access_token", "id_token", "token_type", "error", "expires_in", "created_at">>

\* the characters of the keys and of the string values of the objects
Spell ==
    [name \in {"access_token", "id_token", "token_type", "error", "expires_in",
               "created_at", "tokenA", "tokenB", "", "Bearer", "invalid_client", "idA"} |->
        CASE name = "access_token" -> <<"a","c","c","e","s","s","_","t","o","k","e","n">>
          [] name = "id_token" -> <<"i","d","_","t","o","k","e","n">>
          [] name = "token_type" -> <<"t","o","k","e","n","_","t","y","p","e">>
          [] name = "error" -> <<"e","r","r","o","r">>
          [] name = "expires_in" -> <<"e","x","p","i","r","e","s","_","i","n">>
          [] name = "created_at" -> <<"c","r","e","a","t","e","d","_","a","t">>
          [] name = "tokenA" -> <<"t","o","k","e","n","A">>
          [] name = "tokenB" -> <<"t","o","k","e","n","B">>
          [] name = "" -> << >>
          [] name = "Bearer" -> <<"B","e","a","r","e","r">>
          [] name = "invalid_client" -> <<"i","n","v","a","l","i","d","_","c","l","i","e","n","t">>
          [] name = "idA" -> <<"i","d","A">>]

\* the key or string value spelled by the characters
Unspell(chars) == CHOOSE name \in DOMAIN Spell : Spell[name] = chars

Quote == "\""

\* the text of a string: the strings of the objects hold no character to escape
EncodeString(name) == <<Quote>> \o Spell[name] \o <<Quote>>

\* the text of the value of a key: the values of expires_in and created_at are
\* numbers, the values of the other keys are strings
EncodeValue(key, val) ==
    IF key \in {"expires_in", "created_at"} THEN IntText(val) ELSE EncodeString(val)

\* the chunks of the items of the object from key k of KeyOrder on; first tells
\* whether no item has been written yet
RECURSIVE ItemChunks(_, _, _)
ItemChunks(obj, k, first) ==
    IF k > Len(KeyOrder) THEN << >>
    ELSE IF KeyOrder[k] \notin DOMAIN obj THEN ItemChunks(obj, k + 1, first)
    ELSE (IF first THEN << >> ELSE << <<","," ">> >>)
         \o <<EncodeString(KeyOrder[k]), <<":"," ">>, EncodeValue(KeyOrder[k], obj[KeyOrder[k]])>>
         \o ItemChunks(obj, k + 1, FALSE)

\* json.dump(obj, f): the chunks passed to f.write, in order
json_chunks(obj) ==
    IF DOMAIN obj = {} THEN << <<"{","}">> >>
    ELSE << <<"{">> >> \o ItemChunks(obj, 1, TRUE) \o << <<"}">> >>

\* the text of the first n chunks
RECURSIVE Concat(_, _)
Concat(chunks, n) == IF n = 0 THEN << >> ELSE Concat(chunks, n - 1) \o chunks[n]

\* json.dump(obj, f): the whole text written
json_dump(obj) == LET chunks == json_chunks(obj) IN Concat(chunks, Len(chunks))

\* the content of a file after text is written at its start: the content beyond the
\* text stays
WriteAtStart(content, text) == text \o SubSeq(content, Len(text) + 1, Len(content))

\* the whitespace of JSON
IsJsonSpace(c) == c \in {" ", "\t", "\n", "\r"}

SkipSpace(s, i) == RunEnd(s, i, IsJsonSpace)

NotQuote(c) == c # Quote

\* int() of a text of digits
RECURSIVE DigitsValue(_)
DigitsValue(digits) ==
    IF digits = << >> THEN 0
    ELSE 10 * DigitsValue(SubSeq(digits, 1, Len(digits) - 1))
         + (CHOOSE d \in 0..9 : DecimalDigits[d + 1] = digits[Len(digits)])

RECURSIVE Tokens(_, _)
\* the string that starts with the quote at index i and ends before index j, and the
\* tokens after it; a string without closing quote is no token
StringToken(s, i, j) ==
    IF j > Len(s) THEN <<[kind |-> "bad"]>>
    ELSE <<[kind |-> "str", val |-> SubSeq(s, i + 1, j - 1)]>> \o Tokens(s, j + 1)

\* the number whose digits start at index i and end before index j, and the tokens
\* after it; no digit, or a zero before another digit, is no token
NumberToken(s, i, j) ==
    IF j = i \/ (s[i] = "0" /\ j > i + 1) THEN <<[kind |-> "bad"]>>
    ELSE <<[kind |-> "num", val |-> DigitsValue(SubSeq(s, i, j - 1))]>> \o Tokens(s, j)

\* the tokens of the text from index i on, up to the first text that is no token:
\* braces, colons, commas, strings and numbers, with whitespace between them
Tokens(s, i) ==
    LET a == SkipSpace(s, i)
    IN  IF a > Len(s) THEN << >>
        ELSE IF s[a] \in {"{", "}", ":", ","} THEN <<[kind |-> s[a]]>> \o Tokens(s, a + 1)
        ELSE IF s[a] = Quote THEN StringToken(s, a, RunEnd(s, a + 1, NotQuote))
        ELSE NumberToken(s, a, RunEnd(s, a, IsDigit))

\* the tokens are those of one object, with nothing after it: items of a string, a
\* colon and a value, with commas between them, in braces
IsObjectTokens(t) ==
    /\ Len(t) >= 2
    /\ t[1].kind = "{"
    /\ t[Len(t)].kind = "}"
    /\ Len(t) > 2 => Len(t) % 4 = 1
    /\ \A k \in 2..(Len(t) - 1) :
          CASE k % 4 = 2 -> t[k].kind = "str"
            [] k % 4 = 3 -> t[k].kind = ":"
            [] k % 4 = 0 -> t[k].kind \in {"str", "num"}
            [] k % 4 = 1 -> t[k].kind = ","

\* the object of the tokens of an object; of two items with one key the later one
\* stays
ObjectOf(t) ==
    LET at == {k \in 2..(Len(t) - 1) : k % 4 = 2}
        Last(key) == CHOOSE k \in at :
                        /\ t[k].val = Spell[key]
                        /\ \A j \in at : j > k => t[j].val # Spell[key]
    IN  [key \in {Unspell(t[k].val) : k \in at} |->
            IF t[Last(key) + 2].kind = "str" THEN Unspell(t[Last(key) + 2].val)
            ELSE t[Last(key) + 2].val]

\* whether json.load accepts the content: an empty content, a text cut short and a
\* text with anything after the object raise
WellFormed(content) == IsObjectTokens(Tokens(content, 1))

\* json.load(f) of a well-formed content: the object
json_load(content) == ObjectOf(Tokens(content, 1))

AbsentFile == [exists |-> FALSE, content |-> << >>]

\* open(file_path, "w"): the file exists and is empty
TruncatedFile == [exists |-> TRUE, content |-> << >>]

\* the greatest clock value of the model
MaxTime == 3

\* the number of calls a process makes
MaxCalls == 3

\* lifetimes the token endpoint grants
Lifetimes == {0, 2}

\* What the POST to the token endpoint and response.json() give: an exception (no
\* connection, a body that is not JSON), a JSON array, or a JSON object.
ExchangeAnswers ==
    {[kind |-> "raises"], [kind |-> "array"]}
    \cup {[kind |-> "object", body |-> [access_token |-> "tokenA", expires_in |-> e]] :
             e \in Lifetimes}
    \cup {[kind |-> "object",
           body |-> [access_token |-> "tokenB", token_type |-> "Bearer", expires_in |-> 2]],
          [kind |-> "object", body |-> [access_token |-> "", expires_in |-> 2]],
          [kind |-> "object", body |-> [error |-> "invalid_client"]],
          [kind |-> "object", body |-> [id_token |-> "idA", expires_in |-> 2]]}

\* token["created_at"] = time.time()
Stamp(token, t) ==
    [key \in DOMAIN token \cup {"created_at"} |->
        IF key = "created_at" THEN t ELSE token[key]]

(***************************************************************************)
(* State.                                                                  *)
(***************************************************************************)
VARIABLES
    deps,          \* DEPENDENCIES_INSTALLED, set when the module is imported
    now,           \* the clock time.time() reads
    file,          \* the cache file py_llm_oauth_token.json
    active,        \* the processes that run
    pc,            \* where each process is
    caller,        \* what called get_oauth_token: "direct" or "azure" (get_azure_client)
    token,         \* the local variable token of get_oauth_token
    ret,           \* what the last call of get_oauth_token returned
    exchanges,     \* the POSTs to the token endpoint in the current call
    calls,         \* the calls each process has started
    seen,          \* the cache file as the current call found it, and the clock then
    answer,        \* what the token endpoint answered in the current call
    prev_ret,      \* what the call before the current one returned
    request,       \* the arguments of the current call of get_llm_response
    context,       \* the local variable context of get_llm_response
    messages,      \* the local variable messages of get_llm_response
    completion,    \* what the completion endpoint answered in the current call
    live_calls,    \* the calls of the completion endpoint in the current call
    fallbacks,     \* the calls of get_simulated_response in the current call
    result,        \* what the last finished call of get_llm_response returned
    stdout,        \* what the command line has printed on the standard output
    payload,       \* the argument of the current call of format_db_data_for_llm
    rendered,      \* what the last call of format_db_data_for_llm returned
    source,        \* the text a caller of enhance_response_formatting began with
    response,      \* the argument of the last call of enhance_response_formatting
    enhanced       \* what the last call of enhance_response_formatting returned

token_vars == <<file, caller, token, ret, exchanges, calls, seen, answer, prev_ret>>

llm_vars ==
    <<request, context, messages, completion, live_calls, fallbacks, result, stdout>>

fmt_vars == <<payload, rendered, source, response, enhanced>>

vars == <<deps, now, active, pc, token_vars, llm_vars, fmt_vars>>

Procs == {1, 2}

NotRead == [file |-> AbsentFile, at |-> 0, read |-> FALSE]

NoAnswer == [got |-> [kind |-> "none"], at |-> 0]

\* the value of ret before any call has returned, and after an interrupted call
NotReturned == [t |-> "not returned"]

NoRequest ==
    [prompt |-> << >>, context |-> << >>, system_prompt |-> << >>,
     history |-> "[]", db_data |-> NoneValue]

NoCompletion == [kind |-> "none"]

\* the variables of get_llm_response before any call
IdleLLM ==
    /\ request = NoRequest
    /\ context = << >>
    /\ messages = << >>
    /\ completion = NoCompletion
    /\ live_calls = 0
    /\ fallbacks = 0
    /\ result = NotReturned
    /\ stdout = << >>

\* the state when the processes in running have imported the module and the cache
\* file does not exist yet
InitWith(running) ==
    /\ deps \in BOOLEAN
    /\ now = 0
    /\ file = AbsentFile
    /\ active = running
    /\ pc = [p \in Procs |-> "idle"]
    /\ caller = [p \in Procs |-> "direct"]
    /\ token = [p \in Procs |-> NoneValue]
    /\ ret = [p \in Procs |-> NotReturned]
    /\ exchanges = [p \in Procs |-> 0]
    /\ calls = [p \in Procs |-> 0]
    /\ seen = [p \in Procs |-> NotRead]
    /\ answer = [p \in Procs |-> NoAnswer]
    /\ prev_ret = [p \in Procs |-> NotReturned]
    /\ IdleLLM
    /\ payload = NoneValue
    /\ rendered = << >>
    /\ source = << >>
    /\ response = << >>
    /\ enhanced = << >>

(***************************************************************************)
(* Token Cache: get_oauth_token, one action for each step that reads or    *)
(* writes the cache file or the token endpoint.                            *)
(***************************************************************************)
\* get_oauth_token is entered: the test of DEPENDENCIES_INSTALLED and the file path
EnterOAuth(p, from) ==
    /\ caller' = [caller EXCEPT ![p] = from]
    /\ prev_ret' = [prev_ret EXCEPT ![p] = ret[p]]
    /\ exchanges' = [exchanges EXCEPT ![p] = 0]
    /\ seen' = [seen EXCEPT ![p] = NotRead]
    /\ answer' = [answer EXCEPT ![p] = NoAnswer]
    /\ token' = [token EXCEPT ![p] = NoneValue]
    /\ IF deps
       THEN pc' = [pc EXCEPT ![p] = "read_cache"] /\ ret' = ret
       ELSE pc' = [pc EXCEPT ![p] = "oauth_done"] /\ ret' = [ret EXCEPT ![p] = NoneValue]

\* a process calls get_oauth_token
CallOAuth(p) ==
    /\ p \in active
    /\ pc[p] \in {"idle", "oauth_done"}
    /\ calls[p] < MaxCalls
    /\ calls' = [calls EXCEPT ![p] = calls[p] + 1]
    /\ EnterOAuth(p, "direct")
    /\ UNCHANGED <<deps, now, active, file, llm_vars, fmt_vars>>

\* CacheLookup with the test of the expiry left out: a record is served however old
CacheLookup_NoExpiry(f, t) ==
    IF ~f.exists THEN [outcome |-> "miss"]
    ELSE IF ~WellFormed(f.content) THEN [outcome |-> "raises"]
    ELSE LET cached == json_load(f.content)
         IN  IF "expires_in" \in DOMAIN cached /\ "created_at" \in DOMAIN cached
             THEN IF "access_token" \in DOMAIN cached
                  THEN [outcome |-> "hit", access_token |-> cached["access_token"]]
                  ELSE [outcome |-> "raises"]
             ELSE [outcome |-> "miss"]

\* what the cache read decides, for the file as found at time t: the token of a
\* record still valid, a miss, or an exception of the try block
CacheLookup(f, t) ==
    IF ~f.exists THEN [outcome |-> "miss"]
    ELSE IF ~WellFormed(f.content) THEN [outcome |-> "raises"]
    ELSE LET cached == json_load(f.content)
         IN  IF /\ "expires_in" \in DOMAIN cached
                /\ "created_at" \in DOMAIN cached
                /\ t < cached["created_at"] + cached["expires_in"]
             THEN IF "access_token" \in DOMAIN cached
                  THEN [outcome |-> "hit", access_token |-> cached["access_token"]]
                  ELSE [outcome |-> "raises"]
             ELSE [outcome |-> "miss"]

\* os.path.exists, open, token = json.load(f) and the test of the expiry: the record
\* read stays in token when the call goes on to the exchange
ReadCache(p) ==
    /\ p \in active
    /\ pc[p] = "read_cache"
    /\ seen' = [seen EXCEPT ![p] = [file |-> file, at |-> now, read |-> TRUE]]
    /\ token' = IF file.exists /\ WellFormed(file.content)
                THEN [token EXCEPT ![p] = json_load(file.content)]
                ELSE token
    /\ LET found == CacheLookup(file, now)
       IN  CASE found.outcome = "hit" ->
                   /\ ret' = [ret EXCEPT ![p] = Str(found.access_token)]
                   /\ pc' = [pc EXCEPT ![p] = "oauth_done"]
             [] found.outcome = "raises" ->
                   /\ ret' = [ret EXCEPT ![p] = NoneValue]
                   /\ pc' = [pc EXCEPT ![p] = "oauth_done"]
             [] found.outcome = "miss" ->
                   /\ ret' = ret
                   /\ pc' = [pc EXCEPT ![p] = "exchange"]
    /\ UNCHANGED <<deps, now, active, file, caller, exchanges, calls, answer, prev_ret,
                   llm_vars, fmt_vars>>

\* the POST to the token endpoint, token = response.json() and the creation
\* timestamp: a JSON array is bound to token before the assignment of created_at
\* raises
Exchange(p) ==
    /\ p \in active
    /\ pc[p] = "exchange"
    /\ \E a \in ExchangeAnswers :
          /\ answer' = [answer EXCEPT ![p] = [got |-> a, at |-> now]]
          /\ exchanges' = [exchanges EXCEPT ![p] = exchanges[p] + 1]
          /\ IF a.kind = "object"
             THEN /\ token' = [token EXCEPT ![p] = Stamp(a.body, now)]
                  /\ pc' = [pc EXCEPT ![p] = "open_file"]
                  /\ ret' = ret
             ELSE /\ token' = IF a.kind = "array" THEN [token EXCEPT ![p] = List(<< >>)]
                              ELSE token
                  /\ pc' = [pc EXCEPT ![p] = "oauth_done"]
                  /\ ret' = [ret EXCEPT ![p] = NoneValue]
    /\ UNCHANGED <<deps, now, active, file, caller, calls, seen, prev_ret, llm_vars,
                   fmt_vars>>

\* open(file_path, "w")
OpenFile(p) ==
    /\ p \in active
    /\ pc[p] = "open_file"
    /\ file' = TruncatedFile
    /\ pc' = [pc EXCEPT ![p] = "dump"]
    /\ UNCHANGED <<deps, now, active, caller, token, ret, exchanges, calls, seen, answer,
                   prev_ret, llm_vars, fmt_vars>>

\* json.dump(token, f), the end of the with block, and return token["access_token"]
DumpAndReturn(p) ==
    /\ p \in active
    /\ pc[p] = "dump"
    /\ file' = [exists |-> TRUE,
                content |-> WriteAtStart(file.content, json_dump(token[p]))]
    /\ ret' = [ret EXCEPT ![p] =
                  IF "access_token" \in DOMAIN token[p]
                  THEN Str(token[p]["access_token"]) ELSE NoneValue]
    /\ pc' = [pc EXCEPT ![p] = "oauth_done"]
    /\ UNCHANGED <<deps, now, active, caller, token, exchanges, calls, seen, answer,
                   prev_ret, llm_vars, fmt_vars>>

\* KeyboardInterrupt (no Exception) reaches the process between the open and the end
\* of the with block, or the process is killed: the call never returns.  The with
\* block closes the file on the way out, which writes the chunks json.dump had passed
\* by then: none of them, some of them, or all of them.
Interrupt(p) ==
    /\ p \in active
    /\ pc[p] = "dump"
    /\ LET chunks == json_chunks(token[p])
       IN  \E n \in 0..Len(chunks) :
              file' = [exists |-> TRUE,
                       content |-> WriteAtStart(file.content, Concat(chunks, n))]
    /\ pc' = [pc EXCEPT ![p] = "idle"]
    /\ ret' = [ret EXCEPT ![p] = NotReturned]
    /\ UNCHANGED <<deps, now, active, caller, token, exchanges, calls, seen, answer,
                   prev_ret, llm_vars, fmt_vars>>

\* time passes
Tick ==
    /\ now < MaxTime
    /\ now' = now + 1
    /\ UNCHANGED <<deps, active, pc, token_vars, llm_vars, fmt_vars>>

(***************************************************************************)
(* Response Orchestrator: get_azure_client and get_llm_response.           *)
(***************************************************************************)
formatting_guidance ==
    <<"\n","W","h","e","n"," ","r","e","s","p","o","n","d","i","n","g",","," ","p","l","e","a",
      "s","e"," ","f","o","r","m","a","t"," ","y","o","u","r"," ","a","n","s","w","e","r"," ","a",
      "p","p","r","o","p","r","i","a","t","e","l","y",":","\n","-"," ","U","s","e"," ","c","o",
      "d","e"," ","b","l","o","c","k","s"," ","w","i","t","h"," ","p","r","o","p","e","r"," ","l",
      "a","n","g","u","a","g","e"," ","s","p","e","c","i","f","i","c","a","t","i","o","n"," ","f",
      "o","r"," ","a","n","y"," ","c","o","d","e"," ","(",Backtick,Backtick,Backtick,"p","y","t",
      "h","o","n",","," ",Backtick,Backtick,Backtick,"b","a","s","h",","," ","e","t","c",".",")",
      "\n","-"," ","H","i","g","h","l","i","g","h","t"," ","I","M","P","O","R","T","A","N","T",
      " ","i","n","f","o","r","m","a","t","i","o","n"," ","i","n"," ","b","o","l","d"," ","a","n",
      "d"," ","i","t","a","l","i","c"," ","f","o","r","m","a","t"," ","(","*","*","_","i","m","p",
      "o","r","t","a","n","t","_","*","*",")","\n","-"," ","U","s","e"," ","p","r","o","p","e",
      "r"," ","M","a","r","k","d","o","w","n"," ","f","o","r"," ","l","i","s","t","s",","," ","h",
      "e","a","d","i","n","g","s",","," ","a","n","d"," ","o","t","h","e","r"," ","f","o","r","m",
      "a","t","t","i","n","g","\n","-"," ","I","f"," ","y","o","u","'","r","e"," ","e","x","p",
      "l","a","i","n","i","n","g"," ","s","t","e","p","s",","," ","u","s","e"," ","n","u","m","b",
      "e","r","e","d"," ","l","i","s","t","s","\n","-"," ","U","s","e"," ","b","u","l","l","e",
      "t"," ","p","o","i","n","t","s"," ","f","o","r"," ","f","e","a","t","u","r","e"," ","l","i",
      "s","t","s","\n">>

\* the prompt get_default_system_prompt returns when config/prompts.js is absent or
\* holds no text between the marker and a closing backtick with a semicolon
fallback_system_prompt ==
    <<"Y","o","u"," ","a","r","e"," ","a"," ","h","e","l","p","f","u","l"," ","A","I"," ","a","s",
      "s","i","s","t","a","n","t"," ","s","p","e","c","i","a","l","i","z","e","d"," ","i","n"," ",
      "A","V","O","S"," ","(","A","u","t","o","n","o","m","o","u","s"," ","V","e","h","i","c","l",
      "e"," ","O","p","e","r","a","t","i","n","g"," ","S","y","s","t","e","m",")"," ","d","e","v",
      "e","l","o","p","e","d"," ","b","y"," ","N","V","I","D","I","A","."," ","P","r","o","v","i",
      "d","e"," ","a","c","c","u","r","a","t","e"," ","a","n","d"," ","h","e","l","p","f","u","l",
      " ","i","n","f","o","r","m","a","t","i","o","n"," ","a","b","o","u","t"," ","A","V","O","S",
      " ","f","e","a","t","u","r","e","s",","," ","c","a","p","a","b","i","l","i","t","i","e","s",
      ","," ","a","n","d"," ","u","s","a","g","e","."," ","I","f"," ","y","o","u"," ","d","o","n",
      "'","t"," ","k","n","o","w"," ","s","o","m","e","t","h","i","n","g",","," ","b","e"," ","h",
      "o","n","e","s","t"," ","a","b","o","u","t"," ","i","t","."," ","P","l","e","a","s","e"," ",
      "g","i","v","e"," ","s","m","a","l","l"," ","a","n","d"," ","p","r","e","c","i","s","e"," ",
      "a","n","s","w","e","r","s","."," ","D","o","n","'","t"," ","g","i","v","e"," ","o","u","t",
      " ","o","f"," ","c","o","n","t","e","x","t"," ","a","n","s","w","e","r","s","."," ","P","l",
      "e","a","s","e"," ","g","i","v","e"," ","a","n","s","w","e","r","s"," ","i","n"," ","b","u",
      "l","l","e","t"," ","p","o","i","n","t","s",".">>

\* the prompt get_default_system_prompt returns when reading config/prompts.js raises
except_system_prompt ==
    <<"Y","o","u"," ","a","r","e"," ","a"," ","h","e","l","p","f","u","l"," ","A","I"," ","a","s",
      "s","i","s","t","a","n","t"," ","s","p","e","c","i","a","l","i","z","e","d"," ","i","n"," ",
      "A","V","O","S"," ","(","A","u","t","o","n","o","m","o","u","s"," ","V","e","h","i","c","l",
      "e"," ","O","p","e","r","a","t","i","n","g"," ","S","y","s","t","e","m",")"," ","d","e","v",
      "e","l","o","p","e","d"," ","b","y"," ","N","V","I","D","I","A","."," ","P","r","o","v","i",
      "d","e"," ","a","c","c","u","r","a","t","e"," ","a","n","d"," ","h","e","l","p","f","u","l",
      " ","i","n","f","o","r","m","a","t","i","o","n"," ","a","b","o","u","t"," ","A","V","O","S",
      " ","f","e","a","t","u","r","e","s",","," ","c","a","p","a","b","i","l","i","t","i","e","s",
      ","," ","a","n","d"," ","u","s","a","g","e","."," ","I","f"," ","y","o","u"," ","d","o","n",
      "'","t"," ","k","n","o","w"," ","s","o","m","e","t","h","i","n","g",","," ","b","e"," ","h",
      "o","n","e","s","t"," ","a","b","o","u","t"," ","i","t",".">>

\* str.find(sub, start), with indices counted from 0: the first index from start on
\* where sub occurs, -1 when there is none
find(s, sub, start) ==
    LET at == {k \in start..(Len(s) - Len(sub)) : MatchAt(s, k + 1, sub)}
    IN  IF at = {} THEN -1 ELSE CHOOSE k \in at : \A j \in at : k <= j

\* the states of config/prompts.js: absent, present and not readable, and readable
\* with a prompt, with an empty prompt, with another constant only, and with no
\* template text at all
PromptsFiles ==
    {[exists |-> FALSE, readable |-> FALSE, content |-> << >>],
     [exists |-> TRUE, readable |-> FALSE, content |-> << >>]}
    \cup {[exists |-> TRUE, readable |-> TRUE, content |-> text] :
            text \in {<<"c","o","n","s","t"," ","D","E","F","A","U","L","T","_","L","L","M","_",
                        "P","R","O","M","P","T"," ","="," ",Backtick,"A","n","s","w","e","r"," ",
                        "q","u","e","s","t","i","o","n","s"," ","a","b","o","u","t"," ","A","V",
                        "O","S",".",Backtick,";","\n">>,
                      <<"c","o","n","s","t"," ","D","E","F","A","U","L","T","_","L","L","M","_",
                        "P","R","O","M","P","T"," ","="," ",Backtick,Backtick,";","\n">>,
                      <<"c","o","n","s","t"," ","O","T","H","E","R","_","P","R","O","M","P","T",
                        "_","T","E","X","T","_"," ","="," ",Backtick,"S","u","m","m","a","r","i",
                        "s","e",".",Backtick,";","\n">>,
                      <<"m","o","d","u","l","e",".","e","x","p","o","r","t","s"," ","="," ","{",
                        "}",";","\n">>}}

\* get_default_system_prompt, for the state of config/prompts.js: the index after
\* the marker is taken even when the marker is not found
get_default_system_prompt(f) ==
    IF ~f.exists THEN fallback_system_prompt
    ELSE IF ~f.readable THEN except_system_prompt
    ELSE LET marker == <<"D","E","F","A","U","L","T","_","L","L","M","_","P","R","O","M","P","T",
                         " ","="," ",Backtick>>
             start == find(f.content, marker, 0) + Len(marker)
             end == find(f.content, <<Backtick, ";">>, start)
         IN  IF start > 0 /\ end > 0 THEN SubSeq(f.content, start + 1, end)
             ELSE fallback_system_prompt

\* what get_default_system_prompt can return
DefaultSystemPrompts == {get_default_system_prompt(f) : f \in PromptsFiles}

\* What the completion endpoint gives: an exception (network, authorization, no
\* choice in the answer), or a message whose content is None or a text.
CompletionTexts ==
    { << >>,
      <<"A","V","O","S"," ","r","u","n","s"," ","o","n"," ","D","R","I","V","E",".">>,
      <<"N","O","T","E",":"," ","u","s","e"," ","t","h","e"," ","S","D","K",".","\n","\n","i","m",
      "p","o","r","t"," ","a","v","o","s","\n","a","v","o","s",".","s","t","a","r","t","(",")">> }

CompletionAnswers ==
    {[kind |-> "raises"], [kind |-> "content", content |-> NoneValue]}
    \cup {[kind |-> "content", content |-> Str(text)] : text \in CompletionTexts}

\* A conversation history argument: a JSON text that json.loads rejects, or the
\* value json.loads returns for it.
InvalidJson == [t |-> "invalid JSON"]

Message(role, content) == [role |-> role, content |-> content]

\* safe_response: what the wrapper returns for what the wrapped function returned
safe_response(value) ==
    IF ~IsStr(value) THEN Str(<<"E","r","r","o","r",":"," ","I","n","v","a","l","i","d"," ","r",
                                "e","s","p","o","n","s","e"," ","t","y","p","e"," ","f","r","o",
                                "m"," ","f","u","n","c","t","i","o","n">>) ELSE value

\* what the outermost except of get_llm_response returns
critical_error_response ==
    <<"I"," ","a","p","o","l","o","g","i","z","e"," ","f","o","r"," ","t","h","e"," ","i","n","c",
      "o","n","v","e","n","i","e","n","c","e",","," ","b","u","t"," ","I","'","m"," ","e","x","p",
      "e","r","i","e","n","c","i","n","g"," ","t","e","c","h","n","i","c","a","l"," ","d","i","f",
      "f","i","c","u","l","t","i","e","s","."," ","P","l","e","a","s","e"," ","t","r","y"," ","a",
      "g","a","i","n"," ","l","a","t","e","r",".">>

\* the context after the merge with the rendered db_data
MergedContext(given, db_data) ==
    IF Truthy(db_data)
    THEN LET db_context == format_db_data_for_llm(db_data)
         IN  IF given # << >> THEN given \o <<"\n","\n">> \o db_context ELSE db_context
    ELSE given

\* get_llm_response is called: the merge of the context and the test of
\* DEPENDENCIES_INSTALLED; when format_db_data_for_llm raises, the outermost except
\* returns the apology.  A process makes at most limit calls.
CallLLM(p, requests, limit) ==
    /\ p \in active
    /\ pc[p] \in {"idle", "llm_done"}
    /\ calls[p] < limit
    /\ calls' = [calls EXCEPT ![p] = calls[p] + 1]
    /\ \E r \in requests :
          /\ request' = r
          /\ IF FormatRaises(r.db_data)
             THEN /\ context' = r.context
                  /\ result' = safe_response(Str(critical_error_response))
                  /\ pc' = [pc EXCEPT ![p] = "llm_done"]
             ELSE /\ context' = MergedContext(r.context, r.db_data)
                  /\ result' = NotReturned
                  /\ pc' = [pc EXCEPT ![p] = IF deps THEN "azure_client" ELSE "fallback"]
    /\ messages' = << >>
    /\ completion' = NoCompletion
    /\ live_calls' = 0
    /\ fallbacks' = 0
    /\ exchanges' = [exchanges EXCEPT ![p] = 0]
    /\ UNCHANGED <<deps, now, active, file, caller, token, ret, seen, answer, prev_ret,
                   stdout, fmt_vars>>

\* get_azure_client calls get_oauth_token
AzureClient(p) ==
    /\ p \in active
    /\ pc[p] = "azure_client"
    /\ EnterOAuth(p, "azure")
    /\ UNCHANGED <<deps, now, active, file, calls, llm_vars, fmt_vars>>

\* the truth value of the token get_oauth_token returned: None and "" are false
HasToken(value) == IsStr(value) /\ value.v # ""

\* get_azure_client returns: None without a token, else the client
ClientReturned(p) ==
    /\ p \in active
    /\ pc[p] = "oauth_done"
    /\ caller[p] = "azure"
    /\ pc' = [pc EXCEPT ![p] = IF HasToken(ret[p]) THEN "build" ELSE "fallback"]
    /\ UNCHANGED <<deps, now, active, token_vars, llm_vars, fmt_vars>>

\* json.loads(conversation_history_json) and the test before messages.extend: the
\* entries appended
HistoryEntries(history) ==
    IF history.t = "list" /\ history.items # << >>
    THEN history.items
    ELSE << >>

\* the messages with the context message put after the prompt
BuildMessages_ContextLast(r, merged, default_prompt) ==
    <<Message("system", IF r.system_prompt # << >> THEN r.system_prompt
                        ELSE default_prompt)>>
    \o HistoryEntries(r.history)
    \o <<Message("user", r.prompt \o <<"\n","\n">> \o formatting_guidance)>>
    \o (IF merged # << >>
        THEN <<Message("user", <<"C","o","n","t","e","x","t"," ","i","n","f","o","r","m","a","t",
                                 "i","o","n",":"," ">> \o merged)>> ELSE << >>)

\* the messages of the request, for the default system prompt given
BuildMessages(r, merged, default_prompt) ==
    <<Message("system", IF r.system_prompt # << >> THEN r.system_prompt
                        ELSE default_prompt)>>
    \o HistoryEntries(r.history)
    \o (IF merged # << >>
        THEN <<Message("user", <<"C","o","n","t","e","x","t"," ","i","n","f","o","r","m","a","t",
                                 "i","o","n",":"," ">> \o merged)>> ELSE << >>)
    \o <<Message("user", r.prompt \o <<"\n","\n">> \o formatting_guidance)>>

\* the messages are prepared
Build(p) ==
    /\ p \in active
    /\ pc[p] = "build"
    /\ \E f \in PromptsFiles :
          messages' = BuildMessages(request, context, get_default_system_prompt(f))
    /\ pc' = [pc EXCEPT ![p] = "complete"]
    /\ UNCHANGED <<deps, now, active, token_vars, request, context, completion,
                   live_calls, fallbacks, result, stdout, fmt_vars>>

\* client.chat.completions.create, and the answer through the Response Formatter; an
\* exception, also that of a content of None in the formatter, leads to the fallback
Complete(p) ==
    /\ p \in active
    /\ pc[p] = "complete"
    /\ live_calls' = live_calls + 1
    /\ \E c \in CompletionAnswers :
          /\ completion' = c
          /\ IF c.kind = "content" /\ IsStr(c.content)
             THEN /\ result' = safe_response(Str(enhance_response_formatting(c.content.v)))
                  /\ pc' = [pc EXCEPT ![p] = "llm_done"]
             ELSE /\ result' = result
                  /\ pc' = [pc EXCEPT ![p] = "fallback"]
    /\ UNCHANGED <<deps, now, active, token_vars, request, context, messages, fallbacks,
                   stdout, fmt_vars>>

\* return get_simulated_response(prompt, context)
Fallback(p) ==
    /\ p \in active
    /\ pc[p] = "fallback"
    /\ fallbacks' = fallbacks + 1
    /\ result' = safe_response(Str(get_simulated_response(request.prompt, context)))
    /\ pc' = [pc EXCEPT ![p] = "llm_done"]
    /\ UNCHANGED <<deps, now, active, token_vars, request, context, messages, completion,
                   live_calls, stdout, fmt_vars>>

RECURSIVE strip_tags(_)
\* re.sub(r'<[^>]*>', '', text): every text from a < to the next > is removed, from
\* left to right
strip_tags(text) ==
    LET a == RunEnd(text, 1, LAMBDA c : c # "<")
        b == RunEnd(text, a + 1, LAMBDA c : c # ">")
    IN  IF a > Len(text) \/ b > Len(text) THEN text
        ELSE SubSeq(text, 1, a - 1) \o strip_tags(SubSeq(text, b + 1, Len(text)))

\* the command line after the return of get_llm_response: the test of the response,
\* the removal of the tags, and print
PrintResponse(p) ==
    /\ p \in active
    /\ pc[p] = "llm_done"
    /\ LET text == IF ~IsStr(result) \/ result.v = << >>
                   THEN <<"E","r","r","o","r",":"," ","I","n","v","a","l","i","d"," ","r","e","s",
                          "p","o","n","s","e"," ","f","r","o","m"," ","L","L","M">> ELSE result.v
       IN  stdout' = stdout \o strip_tags(text) \o <<"\n">>
    /\ pc' = [pc EXCEPT ![p] = "main_done"]
    /\ UNCHANGED <<deps, now, active, token_vars, request, context, messages, completion,
                   live_calls, fallbacks, result, fmt_vars>>

\* the command line run without a prompt: it prints the usage line and exits with
\* status 1, get_llm_response is not called
Usage(p) ==
    /\ p \in active
    /\ pc[p] = "idle"
    /\ stdout' = stdout \o <<"U","s","a","g","e",":"," ","p","y","t","h","o","n"," ","l","l","m",
                             "_","c","l","i","e","n","t",".","p","y"," ","\"","p","r","o","m","p",
                             "t","\""," ","[","\"","c","o","n","t","e","x","t","\"","]"," ","[",
                             "\"","s","y","s","t","e","m","_","p","r","o","m","p","t","\"","]",
                             " ","[","\"","c","o","n","v","e","r","s","a","t","i","o","n","_","h",
                             "i","s","t","o","r","y","_","j","s","o","n","\"","]"," ","[","\"",
                             "d","b","_","d","a","t","a","_","j","s","o","n","\"","]">> \o <<"\n">>
    /\ pc' = [pc EXCEPT ![p] = "usage_exit"]
    /\ UNCHANGED <<deps, now, active, token_vars, request, context, messages, completion,
                   live_calls, fallbacks, result, fmt_vars>>

(***************************************************************************)
(* Specifications.                                                         *)
(***************************************************************************)
InitToken == InitWith({1})

NextToken ==
    \/ \E p \in Procs : CallOAuth(p)
    \/ \E p \in Procs : ReadCache(p)
    \/ \E p \in Procs : Exchange(p)
    \/ \E p \in Procs : OpenFile(p)
    \/ \E p \in Procs : DumpAndReturn(p)
    \/ \E p \in Procs : Interrupt(p)
    \/ Tick

\* one process that calls get_oauth_token again and again
SpecToken == InitToken /\ [][NextToken]_vars

InitRace == InitWith(Procs)

NextRace ==
    \/ \E p \in Procs : CallOAuth(p)
    \/ \E p \in Procs : ReadCache(p)
    \/ \E p \in Procs : Exchange(p)
    \/ \E p \in Procs : OpenFile(p)
    \/ \E p \in Procs : DumpAndReturn(p)

\* two processes that call get_oauth_token on the same cache file; nothing interrupts
\* them and the clock stands still
SpecRace == InitRace /\ [][NextRace]_vars

\* the db_data of the calls: none, a record with a title and a text content, and a
\* record whose content is null
LiveDbData ==
    { NoneValue,
      List(<<Dict(<< <<<<"p","a","g","e","T","i","t","l","e">>, <<"B","u","i","l","d">>>>,
                     <<<<"c","o","n","t","e","n","t">>, <<"R","u","n",":","\n",Backtick,Backtick,Backtick,"b","a","s",
                                      "h","\n","m","a","k","e","\n",Backtick,Backtick,Backtick>>>> >>)>>),
      List(<<Dict(<< <<<<"p","a","g","e","T","i","t","l","e">>, <<"B","u","i","l","d">>>>, <<<<"c","o","n","t","e","n","t">>, JsonNull>> >>)>>) }

\* the arguments of the calls of get_llm_response with the live tier in reach: the
\* prompts, contexts, system prompts, histories and db_data
LiveRequests ==
    {[prompt |-> p, context |-> c, system_prompt |-> s, history |-> h, db_data |-> d] :
        p \in { << >>, <<"W","h","a","t"," ","i","s"," ","A","V","O","S","?">> },
        c \in { << >>, <<"N","O","T","E",":"," ","b","e","t","a"," ","o","n","l","y",".">> },
        s \in { << >>, <<"B","e"," ","b","r","i","e","f",".">> },
        h \in { InvalidJson,
                List(<< >>),
                Dict(<< <<<<"r","o","l","e">>, <<"u","s","e","r">>>> >>),
                List(<<Message("user", <<"H","i">>), Message("assistant", <<"H","e","l","l","o">>)>>) },
        d \in LiveDbData}

\* the number of calls of get_llm_response the process makes
MaxLLMCalls == 2

InitLLM == InitWith({1})

NextLLM ==
    \/ CallLLM(1, LiveRequests, MaxLLMCalls)
    \/ AzureClient(1)
    \/ ReadCache(1)
    \/ Exchange(1)
    \/ OpenFile(1)
    \/ DumpAndReturn(1)
    \/ ClientReturned(1)
    \/ Build(1)
    \/ Complete(1)
    \/ Fallback(1)

\* one process that calls get_llm_response again and again; the clock stands still
SpecLLM == InitLLM /\ [][NextLLM]_vars


\* the phrases the prompts of the offline calls are made of
Vocabulary ==
    { <<"W","h","a","t"," ","i","s"," ","A","V","O","S","?">>, <<"D","r","i","v","e","O","S"," ","t","o"," ","N","D","A","S">>, <<"s","t","a","r","t","u","p","c","m","d",".","d",
                                                "t","s","i">>, <<"S","e","c","P","o","l","i","c","y">>,
      <<"s","e","c","u","r","i","t","y">>, <<"p","o","l","i","c","y">>, <<"h","e","l","l","o">>, <<"t","h","e"," ","n","e","x","t"," ","s","t","e","p",
                                             "s">>, <<"D","r","i","v","e","O","S"," ","b",
                                                                 "o","o","t">> }

\* the number of phrases in a prompt
MaxPhrases == 2

RECURSIVE PromptsUpTo(_)
\* the prompts of at most n phrases, joined by a space
PromptsUpTo(n) ==
    IF n = 0 THEN { << >> }
    ELSE LET shorter == PromptsUpTo(n - 1)
         IN  shorter \cup {IF p = << >> THEN w ELSE p \o <<" ">> \o w :
                              p \in shorter, w \in Vocabulary}

\* the arguments of the command line: the prompts, the contexts and the db_data
OfflineRequests ==
    {[prompt |-> p, context |-> c, system_prompt |-> << >>, history |-> List(<< >>),
      db_data |-> d] :
        p \in PromptsUpTo(MaxPhrases),
        c \in { << >>,
                <<"S","e","e"," ","t","h","e"," ","r","e","l","e","a","s","e"," ","n","o","t","e",
                  "s",".">>,
                <<"N","o","t","e",":"," ","b","e","t","a"," ","o","n","l","y",".">>,
                <<"E","x","a","m","p","l","e",":","\n","i","m","p","o","r","t"," ","o","s","\n",
                  "p","r","i","n","t","(","1",")">>,
                <<"R","u","n",":","\n",Backtick,Backtick,Backtick,"\n","i","m","p","o","r","t",
                  " ","o","s","\n",Backtick,Backtick,Backtick>> },
        d \in LiveDbData}

\* the command line makes one call of get_llm_response in a run of the process, and
\* that call makes one call of format_db_data_for_llm
CallsPerRun == 1

InitOffline == InitWith({1}) /\ deps = FALSE

NextOffline ==
    \/ Usage(1)
    \/ CallLLM(1, OfflineRequests, CallsPerRun)
    \/ Fallback(1)
    \/ PrintResponse(1)

\* a run of the command line with DEPENDENCIES_INSTALLED false: without a prompt it
\* prints the usage line; with the arguments of a request the call of
\* get_llm_response takes the fallback or returns the apology, and the command line
\* prints what it returned, its tags removed
SpecOffline == InitOffline /\ [][NextOffline]_vars

\* format_db_data_for_llm is called with one of the payloads and returns.  A process
\* makes at most limit calls.
FormatDbData(p, payloads, limit) ==
    /\ p \in active
    /\ pc[p] = "idle"
    /\ calls[p] < limit
    /\ calls' = [calls EXCEPT ![p] = calls[p] + 1]
    /\ \E d \in payloads :
          /\ payload' = d
          /\ rendered' = format_db_data_for_llm(d)
    /\ UNCHANGED <<deps, now, active, pc, file, caller, token, ret, exchanges, seen, answer,
                   prev_ret, llm_vars, source, response, enhanced>>

\* the lines the contents of the records are made of
ContentLines ==
    { <<Backtick,Backtick,Backtick,"p","y","t","h","o","n">>, FenceMarker, <<"x"," ","="," ","1">>, <<" "," ",Backtick,Backtick,Backtick," "," ">>, << >> }

\* the number of lines of a content
MaxLines == 3

RECURSIVE ContentsUpTo(_)
\* the contents of at least one and at most n lines
ContentsUpTo(n) ==
    IF n = 1 THEN ContentLines
    ELSE LET shorter == ContentsUpTo(n - 1)
         IN  shorter \cup {c \o <<"\n">> \o l : c \in shorter, l \in ContentLines}

Contents == ContentsUpTo(MaxLines)

\* a record with a content, and with a page title or without
Records ==
    {Dict(<< <<<<"c","o","n","t","e","n","t">>, c>> >>) : c \in Contents}
        \cup {Dict(<< <<<<"p","a","g","e","T","i","t","l","e">>, <<"B","u","i","l","d">>>>, <<<<"c","o","n","t","e","n","t">>, c>> >>) : c \in Contents}

\* the first records of the payloads of two records: a fence that is never closed, and
\* a closed one
FirstRecords ==
    { Dict(<< <<<<"c","o","n","t","e","n","t">>, <<Backtick,Backtick,Backtick,"p","y","t","h","o","n","\n","x"," ",
                               "="," ","1">>>> >>),
      Dict(<< <<<<"p","a","g","e","T","i","t","l","e">>, <<"B","u","i","l","d">>>>, <<<<"c","o","n","t","e","n","t">>, <<Backtick,Backtick,Backtick,"\n","x",
                                                             " ","="," ","1","\n",Backtick,
                                                             Backtick,Backtick>>>> >>) }

Payloads ==
    {List(<<r>>) : r \in Records} \cup {List(<<f, r>>) : f \in FirstRecords, r \in Records}

InitFormat == InitWith({1}) /\ deps

NextFormat == FormatDbData(1, Payloads, CallsPerRun)

\* format_db_data_for_llm called on a sequence payload
SpecFormat == InitFormat /\ [][NextFormat]_vars

\* enhance_response_formatting is called with one of the responses and returns.  A
\* process makes at most limit such calls.
EnhanceResponse(p, responses, limit) ==
    /\ p \in active
    /\ pc[p] = "idle"
    /\ calls[p] < limit
    /\ calls' = [calls EXCEPT ![p] = calls[p] + 1]
    /\ \E r \in responses :
          /\ source' = r
          /\ response' = r
          /\ enhanced' = enhance_response_formatting(r)
    /\ pc' = [pc EXCEPT ![p] = "enhanced"]
    /\ UNCHANGED <<deps, now, active, file, caller, token, ret, exchanges, seen, answer,
                   prev_ret, llm_vars, payload, rendered>>

\* enhance_response_formatting is called with what its last call returned
EnhanceAgain(p) ==
    /\ p \in active
    /\ pc[p] = "enhanced"
    /\ response' = enhanced
    /\ enhanced' = enhance_response_formatting(enhanced)
    /\ pc' = [pc EXCEPT ![p] = "enhanced_again"]
    /\ UNCHANGED <<deps, now, active, token_vars, llm_vars, payload, rendered, source>>

\* the lines the responses are made of
ResponseLines ==
    { <<"i","m","p","o","r","t"," ","o","s">>, <<" "," ","d","e","f"," ","f","(","x",")",":">>, << >>, <<" ">>, <<"x"," ","="," ","1">>, <<"N","O","T","E",":"," ","r","u","n",
                                                                 " ","i","t">>,
      <<"1","."," ","o","n","e">>, <<"-"," ","i","t","e","m">>, FenceMarker }

\* the number of lines of a response
MaxResponseLines == 3

RECURSIVE ResponsesUpTo(_)
\* the responses of at least one and at most n lines
ResponsesUpTo(n) ==
    IF n = 1 THEN ResponseLines
    ELSE LET shorter == ResponsesUpTo(n - 1)
         IN  shorter \cup {r \o <<"\n">> \o l : r \in shorter, l \in ResponseLines}

Responses == ResponsesUpTo(MaxResponseLines)

InitEnhance == InitWith({1}) /\ deps

NextEnhance ==
    \/ EnhanceResponse(1, Responses, CallsPerRun)
    \/ EnhanceAgain(1)

\* enhance_response_formatting called on a response, and once more on what it returned
SpecEnhance == InitEnhance /\ [][NextEnhance]_vars

(***************************************************************************)
(* Claims about the Token Cache.                                           *)
(***************************************************************************)
\* the object a cache file holds, for a file json.load accepts
RecordOf(f) == json_load(f.content)

\* the file holds a Token Record that is valid at time t
HoldsValidRecord(f, t) ==
    /\ f.exists
    /\ WellFormed(f.content)
    /\ {"access_token", "expires_in", "created_at"} \subseteq DOMAIN RecordOf(f)
    /\ t < RecordOf(f)["created_at"] + RecordOf(f)["expires_in"]

\* the file holds a record that has expired at time t
HoldsExpiredRecord(f, t) ==
    /\ f.exists
    /\ WellFormed(f.content)
    /\ {"expires_in", "created_at"} \subseteq DOMAIN RecordOf(f)
    /\ t >= RecordOf(f)["created_at"] + RecordOf(f)["expires_in"]

\* a call of get_oauth_token, made with the dependencies installed, has returned
OAuthReturned(p) == p \in active /\ deps /\ pc[p] = "oauth_done" /\ seen[p].read

\* the token endpoint answered a JSON object that holds an access_token
AnsweredToken(p) ==
    answer[p].got.kind = "object" /\ "access_token" \in DOMAIN answer[p].got.body

\* the cache file as the call of process p found it
FileFound(p) == IF seen[p].read THEN seen[p].file ELSE file

\* the file holds a record, with expires_in and created_at, that is valid at time t
HoldsUnexpiredRecord(f, t) ==
    /\ f.exists
    /\ WellFormed(f.content)
    /\ {"expires_in", "created_at"} \subseteq DOMAIN RecordOf(f)
    /\ t < RecordOf(f)["created_at"] + RecordOf(f)["expires_in"]

\* C1 as stated: for every state of the cache file and every clock value, a call of
\* get_oauth_token that finds a record with now < created_at + expires_in returns the
\* cached access_token and makes no request to the token endpoint; a call that finds
\* no file or an expired record makes exactly one credential exchange, stamps
\* created_at on the record returned, overwrites the cache file with it, and returns
\* the new access_token.
C1_EveryCall ==
    \A p \in Procs :
        (p \in active /\ pc[p] = "oauth_done") =>
            /\ HoldsUnexpiredRecord(FileFound(p), seen[p].at) =>
                  /\ "access_token" \in DOMAIN RecordOf(FileFound(p))
                  /\ ret[p] = Str(RecordOf(FileFound(p))["access_token"])
                  /\ exchanges[p] = 0
            /\ (~FileFound(p).exists \/ HoldsExpiredRecord(FileFound(p), seen[p].at)) =>
                  /\ exchanges[p] = 1
                  /\ answer[p].got.kind = "object"
                  /\ file.exists
                  /\ WellFormed(file.content)
                  /\ RecordOf(file) = Stamp(answer[p].got.body, answer[p].at)
                  /\ "access_token" \in DOMAIN answer[p].got.body
                  /\ ret[p] = Str(answer[p].got.body["access_token"])

\* C1 as amended: Without the dependencies a call of get_oauth_token returns None and
\* makes no request.  With the dependencies installed, a call that finds a valid Token
\* Record (access_token, expires_in, created_at, with
\* now < created_at + expires_in) returns the cached access_token, makes no request to
\* the token endpoint and leaves the file as it is.  A call that finds no file or an
\* expired record makes exactly one credential exchange; when the endpoint answers a
\* JSON object the cache file then holds exactly that object with created_at set to
\* the time of the exchange; when the object holds an access_token the call returns
\* it, and otherwise the call returns None.
C1_TokenCache ==
    \A p \in Procs :
        /\ (p \in active /\ pc[p] = "oauth_done" /\ ~deps) =>
              /\ ret[p] = NoneValue
              /\ exchanges[p] = 0
        /\ OAuthReturned(p) =>
              /\ HoldsValidRecord(seen[p].file, seen[p].at) =>
                    /\ ret[p] = Str(RecordOf(seen[p].file)["access_token"])
                    /\ exchanges[p] = 0
                    /\ file = seen[p].file
              /\ (~seen[p].file.exists \/ HoldsExpiredRecord(seen[p].file, seen[p].at)) =>
                    /\ exchanges[p] = 1
                    /\ answer[p].got.kind = "object" =>
                          /\ file.exists
                          /\ WellFormed(file.content)
                          /\ RecordOf(file) =
                                [key \in DOMAIN answer[p].got.body \cup {"created_at"} |->
                                    IF key = "created_at" THEN answer[p].at
                                    ELSE answer[p].got.body[key]]
                    /\ IF AnsweredToken(p)
                       THEN ret[p] = Str(answer[p].got.body["access_token"])
                       ELSE ret[p] = NoneValue

\* a second call is served from the cache, by a record written at an earlier time
C1_Witness ==
    /\ OAuthReturned(1)
    /\ calls[1] >= 2
    /\ HoldsValidRecord(seen[1].file, seen[1].at)
    /\ seen[1].at > RecordOf(seen[1].file)["created_at"]
    /\ ret[1] = Str("tokenB")
    /\ exchanges[1] = 0

\* C2: A failure while reading the cache file is a cache miss: the call goes on to
\* the credential exchange, and only a failure of the exchange makes it return None.
C2_ReadFailureIsMiss ==
    \A p \in Procs :
        (OAuthReturned(p) /\ ret[p] = NoneValue) =>
            /\ exchanges[p] = 1
            /\ ~AnsweredToken(p)

\* C5: Two processes race benignly: no process reads an empty or partly written
\* cache file, the file holds a complete record whenever no process is between the
\* open and the end of its write, and no call returns None unless its own exchange
\* failed.
C5_BenignRace ==
    /\ (file.exists /\ \A q \in Procs : pc[q] # "dump") => WellFormed(file.content)
    /\ \A p \in Procs :
          /\ (seen[p].read /\ seen[p].file.exists) => WellFormed(seen[p].file.content)
          /\ (OAuthReturned(p) /\ ret[p] = NoneValue) => ~AnsweredToken(p)

\* C6: After a call that returned None, the next call attempts a credential exchange.
C6_RetriedFresh ==
    \A p \in Procs :
        (OAuthReturned(p) /\ prev_ret[p] = NoneValue) => exchanges[p] >= 1

(***************************************************************************)
(* Claims about the Response Orchestrator with the live tier in reach.     *)
(***************************************************************************)
\* a call of get_llm_response has returned
LLMReturned == pc[1] \in {"llm_done", "main_done"}

\* the call that returned got as far as the live tier: format_db_data_for_llm did not
\* raise on its db_data
ContextMerged == ~FormatRaises(request.db_data)

\* the call that returned called get_simulated_response
SimulatedReturned == LLMReturned /\ fallbacks = 1

\* the live tier failed in the call that returned: get_azure_client returned no
\* client, the completion endpoint raised, or the formatter raised on its answer
LiveTierFailed ==
    /\ deps
    /\ ContextMerged
    /\ \/ ~HasToken(ret[1])
       \/ completion.kind = "raises"
       \/ completion.kind = "content" /\ ~IsStr(completion.content)

\* C3: get_llm_response returns a non-empty string, never None, whatever the inputs
\* and whatever the token exchange and the completion endpoint give.
C3_NeverEmpty == LLMReturned => (IsStr(result) /\ result.v # << >>)

\* C4: get_llm_response always returns a string; when the live tier fails it makes
\* exactly one fallback step, whose answer is that of the Simulated Responder for the
\* same prompt and context, passed through the Response Formatter, and the token
\* endpoint and the completion endpoint are each tried at most once in the call.
C4_SingleFallback ==
    LLMReturned =>
        /\ IsStr(result)
        /\ live_calls <= 1
        /\ exchanges[1] <= 1
        /\ LiveTierFailed =>
              /\ fallbacks = 1
              /\ live_calls = (IF HasToken(ret[1]) THEN 1 ELSE 0)
              /\ result = Str(enhance_response_formatting(
                                  SimulatedAnswer(request.prompt, context)))
        /\ (deps /\ ~LiveTierFailed) => fallbacks = 0

\* the completion endpoint raised and the caller got the formatted simulated answer,
\* here the context of the request with its keyword emphasized
C4_Witness ==
    /\ LLMReturned
    /\ deps
    /\ HasToken(ret[1])
    /\ completion.kind = "raises"
    /\ request.prompt = << >>
    /\ request.context # << >>
    /\ request.db_data = NoneValue
    /\ fallbacks = 1
    /\ result = Str(enhance_response_formatting(ContextResponse(request.context)))
    /\ result # Str(ContextResponse(request.context))

\* the entries of the history of the request that are to be sent: those of a JSON
\* list, none for a text that is not JSON or a JSON value that is not a list
SentHistory ==
    IF request.history.t = "list" THEN request.history.items ELSE << >>

\* C12: whenever get_llm_response invokes the completion endpoint, the messages it
\* sends are, in this order: one system message (the system prompt of the caller, else
\* the default one), the history entries of the caller verbatim and in order (none when
\* the history is not JSON or not a non-empty list), one context message exactly when
\* the merged context is not empty, and last the user message, the prompt followed by
\* the formatting guidance.
C12_MessageOrder ==
    live_calls = 1 =>
        LET h == Len(SentHistory)
            c == IF context # << >> THEN 1 ELSE 0
        IN  /\ Len(messages) = 1 + h + c + 1
            /\ messages[1].role = "system"
            /\ IF request.system_prompt # << >>
               THEN messages[1].content = request.system_prompt
               ELSE messages[1].content \in DefaultSystemPrompts
            /\ \A i \in 1..h : messages[1 + i] = SentHistory[i]
            /\ c = 1 => messages[2 + h] =
                            [role |-> "user", content |-> <<"C","o","n","t","e","x","t"," ","i",
                                                            "n","f","o","r","m","a","t","i","o",
                                                            "n",":"," ">> \o context]
            /\ messages[2 + h + c] =
                  [role |-> "user",
                   content |-> request.prompt \o <<"\n","\n">> \o formatting_guidance]

\* the completion endpoint was invoked with a default system message, the two entries
\* of the history, the context merged with a rendered dbData, and the prompt
C12_Witness ==
    /\ live_calls = 1
    /\ request.system_prompt = << >>
    /\ request.history.t = "list"
    /\ Len(request.history.items) = 2
    /\ request.context # << >>
    /\ Truthy(request.db_data)
    /\ request.prompt # << >>
    /\ Len(messages) = 5
    /\ messages[1].content = fallback_system_prompt
    /\ messages[3] = request.history.items[2]

(***************************************************************************)
(* Claims about the Simulated Responder, reached through get_llm_response  *)
(* with the dependency stack unavailable.                                  *)
(***************************************************************************)
\* the prompt of the call that returned, lower-cased
PromptLower == lower(request.prompt)

\* the prompt holds both driveos and ndas, in any letter case
AsksSteps == Contains(PromptLower, <<"d","r","i","v","e","o","s">>) /\ Contains(PromptLower, <<"n","d","a","s">>)

\* the prompt triggers the special case for the DTSI files
AsksDtsi == Contains(PromptLower, <<"d","t","s","i">>) /\ Contains(PromptLower, <<"s","t","a","r","t","u","p","c","m",
                                                                       "d">>)

\* the prompt triggers the special case for the security policy
AsksSecPolicy ==
    \/ Contains(PromptLower, <<"s","e","c","p","o","l","i","c","y">>)
    \/ Contains(PromptLower, <<"s","e","c","u","r","i","t","y">>) /\ Contains(PromptLower, <<"p","o","l","i","c","y">>)

\* the prompt holds a keyword of the table
HoldsTableKeyword ==
    \E k \in 1..Len(avos_knowledge) : Contains(PromptLower, avos_knowledge[k].keyword)

\* C7 as stated: in simulated mode every prompt that holds both driveos and ndas, in any
\* letter case, gets the integration-steps answer unchanged, whatever else the prompt
\* holds and whatever the context.
C7_StepsWhateverElse ==
    (SimulatedReturned /\ AsksSteps) => result = Str(knowledge_steps)

\* C7 as amended: in simulated mode every prompt that holds both driveos and ndas, in
\* any letter case, and triggers neither the DTSI rule (dtsi with startupcmd) nor the
\* security-policy rule (secpolicy, or security with policy) gets the integration-steps
\* answer unchanged by the Response Formatter, whatever the context.
C7_StepsUnlessLaterRule ==
    (SimulatedReturned /\ AsksSteps /\ ~AsksDtsi /\ ~AsksSecPolicy) =>
        result = Str(knowledge_steps)

\* a prompt with driveos and ndas in mixed case and a table keyword besides, with a
\* context, got the integration-steps answer
C7_Witness ==
    /\ SimulatedReturned
    /\ request.prompt = <<"D","r","i","v","e","O","S"," ","t","o"," ","N","D","A","S"," ","t","h",
                          "e"," ","n","e","x","t"," ","s","t","e","p","s">>
    /\ context # << >>
    /\ result = Str(knowledge_steps)

\* the context holds a flagged keyword followed by a colon, in any letter case
HoldsFlaggedKeyword(text) ==
    \E k \in 1..Len(important_keywords) :
        \E i \in 1..Len(text) : KeywordAt(text, i, important_keywords[k])

\* a line of the context after its first starts, once stripped, with a code signature
HoldsBareCodeLine(text) ==
    /\ ~Contains(text, FenceMarker)
    /\ LET lines == split_lines(text)
       IN  \E k \in 2..Len(lines) : MatchCodeSignature(lines[k])

\* the start of the header of the Context Formatter, its keyword emphasized
EmphasizedHeader ==
    <<"\n","*","*","_","I","M","P","O","R","T","A","N","T",":","_","*","*"," "," ","T","h","e",
      " ","f","o","l","l","o","w","i","n","g"," ","i","n","f","o","r","m","a","t","i","o","n">>

\* C8 as stated: in simulated mode, for a prompt that matches no table keyword and no
\* compound rule, an empty context gives the fixed message and a non-empty context is
\* contained verbatim in the returned text, also when the Context Formatter made it.
C8_ContextVerbatim ==
    (SimulatedReturned /\ ~HoldsTableKeyword /\ ~AsksSteps /\ ~AsksDtsi /\ ~AsksSecPolicy) =>
        /\ context = << >> => result = Str(default_response)
        /\ context # << >> => Contains(result.v, context)

\* C8 as amended: in simulated mode, for a prompt that matches no table keyword and no
\* compound rule, an empty context gives the fixed message, and a non-empty context
\* gives the message that embeds it, passed through the Response Formatter: the
\* returned text contains the context verbatim when the context holds no flagged
\* keyword (IMPORTANT, WARNING, CRITICAL, NOTE, CAUTION, any letter case) followed by
\* a colon and no line after its first that starts with a code signature outside a
\* fence.  A context made by the Context Formatter starts with IMPORTANT: and comes
\* back with that keyword emphasized.
C8_ContextThroughFormatter ==
    (SimulatedReturned /\ ~HoldsTableKeyword /\ ~AsksSteps /\ ~AsksDtsi /\ ~AsksSecPolicy) =>
        /\ context = << >> => result = Str(default_response)
        /\ context # << >> =>
              result = Str(enhance_response_formatting(ContextResponse(context)))
        /\ (context # << >> /\ ~HoldsFlaggedKeyword(context) /\ ~HoldsBareCodeLine(context)) =>
              /\ result = Str(ContextResponse(context))
              /\ Contains(result.v, context)
        /\ Truthy(request.db_data) =>
              /\ HoldsFlaggedKeyword(context)
              /\ Contains(result.v, EmphasizedHeader)
              /\ ~Contains(result.v, context)

\* a prompt without keyword got back, verbatim, a context that holds a fence
C8_Witness ==
    /\ SimulatedReturned
    /\ request.prompt = <<"h","e","l","l","o">>
    /\ request.db_data = NoneValue
    /\ context = <<"R","u","n",":","\n",Backtick,Backtick,Backtick,"\n","i","m","p","o","r","t",
                   " ","o","s","\n",Backtick,Backtick,Backtick>>
    /\ Contains(result.v, context)
    /\ result.v # default_response

\* every content of a record of the db_data is a text
EveryContentIsText(db_data) ==
    (db_data.t = "list") =>
        \A k \in 1..Len(db_data.items) :
            (db_data.items[k].t = "dict" /\ HasKey(db_data.items[k].entries, <<"c","o","n","t","e","n","t">>)) =>
                GetKey(db_data.items[k].entries, <<"c","o","n","t","e","n","t">>) # JsonNull

\* C9 as stated: with the dependency stack unavailable, every prompt that holds avos in
\* any letter case and triggers none of the compound rules (driveos with ndas, dtsi
\* with startupcmd, the security-policy rule) gets the product-overview answer, which
\* holds Autonomous Vehicle Operating System, whatever the context and the dbData.
C9_OverviewOffline ==
    (LLMReturned /\ ~deps /\ Contains(PromptLower, <<"a","v","o","s">>)
        /\ ~AsksSteps /\ ~AsksDtsi /\ ~AsksSecPolicy) =>
        /\ result = Str(knowledge_avos)
        /\ Contains(result.v, <<"A","u","t","o","n","o","m","o","u","s"," ","V","e","h","i","c",
                                "l","e"," ","O","p","e","r","a","t","i","n","g"," ","S","y","s",
                                "t","e","m">>)

\* C9 as amended: with the dependency stack unavailable, every prompt that holds avos
\* in any letter case and triggers none of the compound rules gets the product-overview
\* answer, which holds Autonomous Vehicle Operating System, whatever the context and
\* for every dbData whose record contents are texts; for a dbData with a record whose
\* content is no text the call returns the fixed apology.
C9_OverviewUnlessFormatterRaises ==
    (LLMReturned /\ ~deps /\ Contains(PromptLower, <<"a","v","o","s">>)
        /\ ~AsksSteps /\ ~AsksDtsi /\ ~AsksSecPolicy) =>
        IF EveryContentIsText(request.db_data)
        THEN /\ result = Str(knowledge_avos)
             /\ Contains(result.v, <<"A","u","t","o","n","o","m","o","u","s"," ","V","e","h","i",
                                     "c","l","e"," ","O","p","e","r","a","t","i","n","g"," ","S",
                                     "y","s","t","e","m">>)
        ELSE /\ result = Str(<<"I"," ","a","p","o","l","o","g","i","z","e"," ","f","o","r"," ",
                               "t","h","e"," ","i","n","c","o","n","v","e","n","i","e","n","c",
                               "e",","," ","b","u","t"," ","I","'","m"," ","e","x","p","e","r",
                               "i","e","n","c","i","n","g"," ","t","e","c","h","n","i","c","a",
                               "l"," ","d","i","f","f","i","c","u","l","t","i","e","s","."," ",
                               "P","l","e","a","s","e"," ","t","r","y"," ","a","g","a","i","n",
                               " ","l","a","t","e","r",".">>)
             /\ fallbacks = 0

\* an upper-case AVOS next to another table keyword, with a context and a dbData
C9_Witness ==
    /\ LLMReturned
    /\ ~deps
    /\ request.prompt = <<"t","h","e"," ","n","e","x","t"," ","s","t","e","p","s"," ","W","h","a",
                          "t"," ","i","s"," ","A","V","O","S","?">>
    /\ request.context # << >>
    /\ Truthy(request.db_data)
    /\ EveryContentIsText(request.db_data)
    /\ result = Str(knowledge_avos)

\* the keywords of the table, in its order
TableOrder == [k \in 1..Len(avos_knowledge) |-> avos_knowledge[k].keyword]

\* the first entry of the table whose keyword is in the lower-cased prompt
FirstEntryInPrompt ==
    CHOOSE k \in 1..Len(avos_knowledge) :
        /\ Contains(PromptLower, avos_knowledge[k].keyword)
        /\ \A j \in 1..(k - 1) : ~Contains(PromptLower, avos_knowledge[j].keyword)

\* C14: the answer of the Simulated Responder to a prompt that triggers no special
\* case is that of the first table entry, in the order avos, drive, driveos, ndas,
\* feature, dtsi, steps, secpolicy, whose keyword is in the lower-cased prompt; a
\* prompt that holds driveos holds drive, so the driveos answer is never returned,
\* whatever the prompt and the context.
C14_DriveosNeverReturned ==
    SimulatedReturned =>
        /\ TableOrder = << <<"a","v","o","s">>, <<"d","r","i","v","e">>, <<"d","r","i","v","e","o","s">>, <<"n","d","a","s">>, <<"f","e","a","t","u","r","e">>,
                          <<"d","t","s","i">>, <<"s","t","e","p","s">>, <<"s","e","c","p","o","l","i","c","y">> >>
        /\ result # Str(knowledge_driveos)
        /\ (HoldsTableKeyword /\ ~AsksSteps /\ ~AsksDtsi /\ ~AsksSecPolicy) =>
              result = Str(avos_knowledge[FirstEntryInPrompt].info)

\* a prompt that holds driveos, and so drive, and no other keyword got the drive answer
C14_Witness ==
    /\ SimulatedReturned
    /\ request.prompt = <<"D","r","i","v","e","O","S"," ","b","o","o","t">>
    /\ Contains(PromptLower, <<"d","r","i","v","e","o","s">>)
    /\ FirstEntryInPrompt = 2
    /\ result = Str(knowledge_drive)

(***************************************************************************)
(* Claims about the Context Formatter.                                     *)
(***************************************************************************)
\* the number of lines of the header before the output of the first record
HeaderLines == Len(split_lines(db_header)) - 1

\* the indexes, in the rendered lines, of the separators that end the records
Separators(all) == {i \in 1..Len(all) : all[i] = <<"-","-","-">>}

\* the index of the separator that ends the j-th record
SeparatorAt(all, j) ==
    LET seps == Separators(all)
    IN  CHOOSE i \in seps : Cardinality({m \in seps : m <= i}) = j

\* the lines the content of the j-th record of the payload gave, among all the lines
\* of the rendered text: those between the heading of the record and the two empty
\* lines before its separator
ContentOutputIn(all, j) ==
    LET first == IF j = 1 THEN HeaderLines + 1 ELSE SeparatorAt(all, j - 1) + 2
        heading == IF HasKey(payload.items[j].entries, <<"p","a","g","e","T","i","t","l","e">>) THEN 2 ELSE 0
    IN  SubSeq(all, first + heading, SeparatorAt(all, j) - 3)

\* the same, of the text the last call of format_db_data_for_llm returned
ContentOutput(j) == ContentOutputIn(split_lines(rendered), j)

\* the lines of the content of the j-th record of the payload
ContentInput(j) == split_lines(GetKey(payload.items[j].entries, <<"c","o","n","t","e","n","t">>))

\* a line that, stripped, starts with the fence marker
OpensFence(line) == startswith(strip(line), FenceMarker)

\* a line that, stripped, is the bare fence marker
ClosesFence(line) == strip(line) = FenceMarker

\* whether the k-th line of lines lies in a code-fence region that is still open
\* after it: a region opens at a fence line outside a region and closes at the next
\* bare fence line
InRegionAfter(lines) ==
    LET f[k \in 0..Len(lines)] ==
            IF k = 0 THEN FALSE
            ELSE IF ~f[k - 1] THEN OpensFence(lines[k])
            ELSE ~ClosesFence(lines[k])
    IN  f

\* the opening fence lines of lines
Openers(lines) ==
    LET inside == InRegionAfter(lines)
    IN  {k \in 1..Len(lines) : ~inside[k - 1] /\ inside[k]}

\* the closing fence lines of lines
Closers(lines) ==
    LET inside == InRegionAfter(lines)
    IN  {k \in 1..Len(lines) : inside[k - 1] /\ ~inside[k]}

\* where the k-th line of the content stands in the output of its record, should two
\* lines be put before every opening fence line and two after every closing one
OutputIndex(opens, closes, k) ==
    k + 2 * Cardinality({o \in opens : o <= k}) + 2 * Cardinality({c \in closes : c < k})

IsStartMarker(line) == startswith(line, <<"<","C","O","D","E","_","B","L","O","C","K","_","S","T",
                                          "A","R","T"," ","l","a","n","g","=","\"">>)

IsEndMarker(line) == line = <<"<","C","O","D","E","_","B","L","O","C","K","_","E","N","D",">">>

\* the output of a record holds every line of the content unchanged and in order, a
\* start marker right before each opening fence line, an end marker right after each
\* closing fence line, and nothing else
Bracketed(out, lines) ==
    LET opens == Openers(lines)
        closes == Closers(lines)
    IN  /\ Len(out) = Len(lines) + 2 * Cardinality(opens) + 2 * Cardinality(closes)
        /\ \A k \in 1..Len(lines) : out[OutputIndex(opens, closes, k)] = lines[k]
        /\ \A k \in opens :
              /\ IsStartMarker(out[OutputIndex(opens, closes, k) - 1])
              /\ out[OutputIndex(opens, closes, k) - 2] = << >>
        /\ \A k \in closes :
              /\ IsEndMarker(out[OutputIndex(opens, closes, k) + 1])
              /\ out[OutputIndex(opens, closes, k) + 2] = << >>
        /\ Cardinality({i \in 1..Len(out) : IsStartMarker(out[i])}) = Cardinality(opens)
        /\ Cardinality({i \in 1..Len(out) : IsEndMarker(out[i])}) = Cardinality(closes)

\* every start marker of the output is followed, in the output, by an end marker
EveryStartHasEnd(out) ==
    \A i \in 1..Len(out) :
        IsStartMarker(out[i]) => \E j \in (i + 1)..Len(out) : IsEndMarker(out[j])

\* C10 as stated: for every sequence payload and every content, format_db_data_for_llm
\* emits every content line unchanged and in order, a CODE_BLOCK_START marker right
\* before each opening fence line, and for each CODE_BLOCK_START, within the output of
\* the record, a CODE_BLOCK_END marker right after the closing fence line of the region.
C10_EveryRegionBracketed ==
    payload.t = "list" =>
        LET all == split_lines(rendered)
        IN  \A j \in 1..Len(payload.items) :
                LET out == ContentOutputIn(all, j)
                IN  Bracketed(out, ContentInput(j)) /\ EveryStartHasEnd(out)

\* C10 as amended: for every sequence payload and every content, format_db_data_for_llm
\* emits every content line unchanged and in order, a CODE_BLOCK_START marker right
\* before each opening fence line, and a CODE_BLOCK_END marker right after each closing
\* fence line (a bare fence marker inside a region), within the output of the record; a
\* region whose fence is never closed in the content gets a CODE_BLOCK_START and no
\* CODE_BLOCK_END.
C10_ClosedRegionsBracketed ==
    payload.t = "list" =>
        LET all == split_lines(rendered)
        IN  \A j \in 1..Len(payload.items) :
                Bracketed(ContentOutputIn(all, j), ContentInput(j))

\* a payload of two records was rendered: the first opens a fence and never closes it,
\* the second opens one, closes it with an indented fence line and goes on
C10_Witness ==
    /\ payload.t = "list"
    /\ Len(payload.items) = 2
    /\ ContentInput(1) = << <<Backtick,Backtick,Backtick,"p","y","t","h","o","n">>, <<"x"," ","="," ","1">> >>
    /\ ContentInput(2) = << <<Backtick,Backtick,Backtick,"p","y","t","h","o","n">>, <<" "," ",Backtick,Backtick,Backtick," "," ">>, <<"x"," ","="," ","1">> >>
    /\ ~EveryStartHasEnd(ContentOutput(1))
    /\ ContentOutput(2) = << << >>, <<"<","C","O","D","E","_","B","L","O","C","K","_","S","T","A",
                                      "R","T"," ","l","a","n","g","=","\"","p","y","t","h","o",
                                      "n","\"",">">>, <<Backtick,Backtick,Backtick,"p","y",
                                                                              "t","h","o","n">>,
                             <<" "," ",Backtick,Backtick,Backtick," "," ">>, <<"<","C","O","D","E","_","B","L","O","C","K","_","E",
                                            "N","D",">">>, << >>, <<"x"," ","="," ","1">> >>

(***************************************************************************)
(* Claims about the Response Formatter.                                    *)
(***************************************************************************)
\* a line of the text starts, once stripped, with a code signature
HoldsCodeSignatureLine(text) ==
    LET lines == split_lines(text)
    IN  \E k \in 1..Len(lines) : MatchCodeSignature(lines[k])

\* C11: for every response text with no fence marker and no bare code signature line,
\* enhance_response_formatting applied to its own output returns that output
\* unchanged, also for texts with flagged sentences and texts that begin with a list
\* marker.
C11_Idempotent ==
    (pc[1] = "enhanced_again" /\ ~Contains(source, FenceMarker)
        /\ ~HoldsCodeSignatureLine(source)) =>
        enhanced = response

\* whether the k-th line of lines lies in a fence that is still open after it: a fence
\* opens at a line that starts with a code signature outside a fence, and closes at
\* the next blank line
InFenceAfter(lines) ==
    LET f[k \in 0..Len(lines)] ==
            IF k = 0 THEN FALSE
            ELSE IF ~f[k - 1] THEN MatchCodeSignature(lines[k])
            ELSE strip(lines[k]) # << >>
    IN  f

\* the lines of the text enhance_response_formatting returned, without the empty line
\* it puts before a list marker that starts the text
EnhancedLines ==
    LET out == split_lines(enhanced)
    IN  IF NumberedMarkerAtStart(source) \/ BulletMarkerAtStart(source)
        THEN Tail(out) ELSE out

\* out holds the lines, each as Kept allows, an opening fence line right before each
\* line that opens a fence, a closing fence line right before the blank line that
\* closes it, or at the end when no blank line follows, and as many opening as closing
\* fence lines
Fenced(out, lines, Kept(_, _)) ==
    LET inside == InFenceAfter(lines)
        n == Len(lines)
        opens == {k \in 1..n : ~inside[k - 1] /\ inside[k]}
        closes == {k \in 1..n : inside[k - 1] /\ ~inside[k]}
        at_end == IF inside[n] THEN 1 ELSE 0
        OutIndex(k) == k + Cardinality({o \in opens : o <= k})
                         + Cardinality({c \in closes : c <= k})
    IN  /\ Len(out) = n + Cardinality(opens) + Cardinality(closes) + at_end
        /\ \A k \in 1..n : Kept(out[OutIndex(k)], lines[k])
        /\ \A k \in opens : out[OutIndex(k) - 1] = OpenPythonFence
        /\ \A k \in closes : out[OutIndex(k) - 1] = FenceMarker
        /\ at_end = 1 => out[Len(out)] = FenceMarker
        /\ opens # {}
        /\ Cardinality({i \in 1..Len(out) : out[i] = OpenPythonFence})
              = Cardinality({i \in 1..Len(out) : out[i] = FenceMarker})

\* the line is kept unchanged
KeptUnchanged(out_line, line) == out_line = line

\* the line is kept unchanged, or with its flagged keywords emphasized if it holds some
KeptOrEmphasized(out_line, line) ==
    IF HoldsFlaggedKeyword(line)
    THEN out_line = EmphasizeAll(line, 1) /\ Contains(out_line, <<"*","*","_">>)
    ELSE out_line = line

\* a call of enhance_response_formatting returned, for a response with no fence
\* marker in which some line starts with a code signature
EnhancedBareCode ==
    /\ pc[1] = "enhanced"
    /\ ~Contains(source, FenceMarker)
    /\ HoldsCodeSignatureLine(source)

\* C13 as stated: for every response with no fence marker in which some line begins
\* with a code signature, enhance_response_formatting puts an opening fence line right
\* before the first such line and closes the fence at the next blank line or at the
\* end; every fence it opens is closed, the output has as many opening as closing
\* fence lines, and all the original lines are kept unchanged and in order.
C13_FencedAllLinesUnchanged ==
    EnhancedBareCode => Fenced(EnhancedLines, split_lines(source), KeptUnchanged)

\* C13 as amended: for every response with no fence marker in which some line begins
\* with a code signature, enhance_response_formatting puts an opening fence line right
\* before the first such line and closes the fence at the next blank line or at the
\* end; every fence it opens is closed, the output has as many opening as closing
\* fence lines, and all the original lines are kept in order, unchanged except that
\* a line holding a flagged keyword followed by a colon comes back with the keyword
\* emphasized.
C13_FencedLinesKept ==
    EnhancedBareCode => Fenced(EnhancedLines, split_lines(source), KeptOrEmphasized)

\* a response of an indented signature, a blank line and a second signature came
\* back with two fences, the first closed before the blank line, the second at the end
C13_Witness ==
    /\ pc[1] = "enhanced"
    /\ source = <<" "," ","d","e","f"," ","f","(","x",")",":","\n","\n","i","m","p","o","r","t",
                  " ","o","s">>
    /\ split_lines(enhanced) = << OpenPythonFence, <<" "," ","d","e","f"," ","f","(","x",")",":">>, FenceMarker, << >>,
                                  OpenPythonFence, <<"i","m","p","o","r","t"," ","o","s">>, FenceMarker >>

====
